---------------------------- MODULE Spec2Model ----------------------------
(***************************************************************************)
(* A model of the document ingestion pipeline: text segmentation           *)
(* (common/chunking.py), vector ingestion into the HTTP-indexed store      *)
(* (vector_ingest.py), the relational store client (common/postgres.py),   *)
(* record identifiers and hashes (common/chunk_records.py), fingerprints   *)
(* (common/simhash.py), the quality checks (quality_checks.py,             *)
(* persist_results.py) and the dispatcher of uploads (dispatcher.py).      *)
(* Strings are sequences of one-character strings, so that slicing,        *)
(* stripping and searching are computed as the Python code computes them.  *)
(***************************************************************************)
EXTENDS Integers, Sequences, FiniteSets, TLC

VARIABLES
    \* ---- text segmentation (common/chunking.py) ----
    pages,          \* input of chunk_pages: sequence of [pageNumber, text]
    min_len,        \* chunk_pages parameter
    max_len,        \* chunk_pages parameter
    overlap,        \* chunk_pages parameter
    chunks,         \* the list chunk_pages returned
    cstage,         \* "off" | "input" | "done" | "hung"
    \* ---- vector ingestion (vector_ingest.py) ----
    env,            \* get_env(): the process configuration
    index,          \* the store's index: [exists, dimension, docs]
    dataset_status, \* status field of the dataset record
    audit,          \* audit events written, as <<type, invocation>>
    run,            \* per handler invocation: its event, locals and position
    slots,          \* the invocation slots that are in use
    started,        \* number of invocations started so far
    faults,         \* number of failing or anomalous responses so far
    \* ---- relational store connection (common/postgres.py) ----
    connection,     \* _connection: the cached handle, 0 for None
    handles,        \* handle h is handles[h]: "open" | "closed"
    thread,         \* each caller: [pc, got]
    \* ---- relational store rows (common/postgres.py) ----
    table,          \* the rows of chunks
    before,         \* the rows when the last statement began
    values,         \* the records of the next call, then the rows it proposed
    ustage,         \* "off" | "ready" | "building" | "inserted" | "deleted" | "raised"
    \* ---- pure functions: one call, its argument and its result ----
    arg,            \* the argument of the call
    res,            \* what the call returned
    pstage,         \* "off" | "input" | "done"
    \* ---- the files table and the files' pipeline runs ----
    files,          \* the files table: fileId -> item
    qrun,           \* per file: position in its run, locals, findings
    \* ---- the dispatcher (dispatcher.py) and one uploaded file ----
    file_item,      \* the file's item of the files table: None or [status, latestJobId]
    jobs,           \* the items of the jobs table, as [jobId, status]
    executions,     \* the jobId of every execution sfn.start_execution started
    dispatch        \* per handler invocation: [pc, job_id]

chunkVars == <<pages, min_len, max_len, overlap, chunks, cstage>>
connVars == <<connection, handles, thread>>
upsertVars == <<table, before, values, ustage>>
ingestVars == <<env, index, dataset_status, audit, run, slots, started, faults>>
pureVars == <<arg, res, pstage>>
qualVars == <<files, qrun>>
dispVars == <<file_item, jobs, executions, dispatch>>
notIngest == <<chunkVars, connVars, upsertVars, pureVars, qualVars, dispVars>>
notChunk == <<ingestVars, connVars, upsertVars, pureVars, qualVars, dispVars>>
notConn == <<chunkVars, ingestVars, upsertVars, pureVars, qualVars, dispVars>>
notUpsert == <<chunkVars, ingestVars, connVars, pureVars, qualVars, dispVars>>
notPure == <<chunkVars, ingestVars, connVars, upsertVars, qualVars, dispVars>>
notQual == <<chunkVars, ingestVars, connVars, upsertVars, pureVars, dispVars>>
notDisp == <<chunkVars, ingestVars, connVars, upsertVars, pureVars, qualVars>>

vars == <<chunkVars, ingestVars, connVars, upsertVars, pureVars, qualVars, dispVars>>

PureOff == arg = <<>> /\ res = <<>> /\ pstage = "off"
QualOff == files = <<>> /\ qrun = <<>>
DispOff == file_item = <<>> /\ jobs = {} /\ executions = {} /\ dispatch = <<>>

(***************************************************************************)
(* Bounds of the model.                                                    *)
(***************************************************************************)
MaxPages == 3       \* pages per document
MaxChars == 4       \* characters per document, all pages together
MaxParam == 3       \* largest min_len / max_len / overlap tried
MaxRecords == 3     \* chunk records in one chunks file
MaxBatch == 2       \* largest INGEST_BATCH_SIZE tried
MaxWorkers == 2     \* largest INGEST_CONCURRENCY tried
MaxRuns == 2        \* handler invocations per behaviour
MaxFaults == 1      \* failing or anomalous responses per behaviour

(***************************************************************************)
(* Generic helpers.                                                        *)
(***************************************************************************)
Min(a, b) == IF a < b THEN a ELSE b
Max(a, b) == IF a > b THEN a ELSE b
SetMax(S) == CHOOSE x \in S : \A y \in S : y <= x
SetMin(S) == CHOOSE x \in S : \A y \in S : x <= y
Range(s) == {s[i] : i \in 1..Len(s)}

RECURSIVE SumLen(_)
SumLen(ps) == IF ps = <<>> THEN 0 ELSE Len(Head(ps).text) + SumLen(Tail(ps))

(***************************************************************************)
(* Python string primitives on sequences of characters.                    *)
(***************************************************************************)
Spaces == {" ", "\n"}
Digits == {"0", "1", "2"}
Alphas == {"a", "b", "c", "A", "B", "C"}
IsSpace(c) == c \in Spaces
IsDigit(c) == c \in Digits
IsAlpha(c) == c \in Alphas

RECURSIVE LStrip(_)
LStrip(s) == IF s = <<>> THEN s
             ELSE IF IsSpace(Head(s)) THEN LStrip(Tail(s)) ELSE s

RECURSIVE RStrip(_)
RStrip(s) == IF s = <<>> THEN s
             ELSE IF IsSpace(s[Len(s)]) THEN RStrip(SubSeq(s, 1, Len(s) - 1)) ELSE s

\* str.strip()
Strip(s) == RStrip(LStrip(s))

\* s[a:b] for 0 <= a
Slice(s, a, b) == SubSeq(s, a + 1, Min(b, Len(s)))

\* s[-n:] for n > 0
LastN(s, n) == IF n >= Len(s) THEN s ELSE SubSeq(s, Len(s) - n + 1, Len(s))

\* s.rfind(c): 0-based index of the last c, -1 when there is none
RFind(s, c) ==
    LET I == {i \in 1..Len(s) : s[i] = c}
    IN  IF I = {} THEN -1 ELSE SetMax(I) - 1

\* s.split("\n")
RECURSIVE SplitLines(_)
SplitLines(s) ==
    LET I == {i \in 1..Len(s) : s[i] = "\n"}
    IN  IF I = {} THEN <<s>>
        ELSE LET k == SetMin(I)
             IN  <<SubSeq(s, 1, k - 1)>> \o SplitLines(SubSeq(s, k + 1, Len(s)))

(***************************************************************************)
(* is_section_boundary: the eight SECTION_BOUNDARY_PATTERNS, matched with  *)
(* re.match (anchored at the start) and re.IGNORECASE on the stripped line.*)
(***************************************************************************)
\* end (exclusive, 1-based) of the longest run of characters of class P from i
RECURSIVE RunEnd(_, _, _)
RunEnd(s, i, P) ==
    IF i <= Len(s) /\ s[i] \in P THEN RunEnd(s, i + 1, P) ELSE i

Upper(c) == CASE c = "a" -> "A" [] c = "b" -> "B" [] c = "c" -> "C" [] OTHER -> c

\* ^WORD\s+[A-Z0-9]+ or ^WORD\s+\d+ : keyword, whitespace, one class character
MatchKeyword(s, word, P) ==
    /\ Len(s) > Len(word)
    /\ \A i \in 1..Len(word) : Upper(s[i]) = word[i]
    /\ LET j == RunEnd(s, Len(word) + 1, Spaces)
       IN  j > Len(word) + 1 /\ j <= Len(s) /\ s[j] \in P

\* ^\d+\.\d+(?:\.\d+)*\s+[A-Z]
RECURSIVE DottedEnd(_, _)
DottedEnd(s, i) ==
    IF i <= Len(s) /\ s[i] = "." /\ RunEnd(s, i + 1, Digits) > i + 1
    THEN DottedEnd(s, RunEnd(s, i + 1, Digits)) ELSE i

MatchNumberedTitle(s) ==
    LET d1 == RunEnd(s, 1, Digits)
        d2 == DottedEnd(s, d1)
        w  == RunEnd(s, d2, Spaces)
    IN  d1 > 1 /\ d2 > d1 /\ w > d2 /\ w <= Len(s) /\ IsAlpha(s[w])

\* ^[A-Z]\d+\.\d+
MatchSpecFormat(s) ==
    /\ Len(s) >= 4
    /\ IsAlpha(s[1])
    /\ LET d == RunEnd(s, 2, Digits)
       IN  d > 2 /\ d < Len(s) /\ s[d] = "." /\ IsDigit(s[d + 1])

is_section_boundary(line) ==
    LET s == Strip(line)
    IN  \/ MatchKeyword(s, <<"C", "L", "A", "U", "S", "E">>, Digits)
        \/ MatchKeyword(s, <<"S", "E", "C", "T", "I", "O", "N">>, Digits)
        \/ MatchKeyword(s, <<"P", "A", "R", "T">>, Alphas \cup Digits)
        \/ MatchKeyword(s, <<"A", "P", "P", "E", "N", "D", "I", "X">>, Alphas \cup Digits)
        \/ MatchKeyword(s, <<"S", "C", "H", "E", "D", "U", "L", "E">>, Alphas \cup Digits)
        \/ MatchKeyword(s, <<"A", "T", "T", "A", "C", "H", "M", "E", "N", "T">>, Alphas \cup Digits)
        \/ MatchNumberedTitle(s)
        \/ MatchSpecFormat(s)

(***************************************************************************)
(* find_best_split_point                                                   *)
(***************************************************************************)
\* the for loop over the lines of text[:max_len]; -1 when it ends without a
\* section boundary
RECURSIVE ScanLines(_, _, _, _)
ScanLines(lines, i, accumulated_len, maxLen) ==
    IF i > Len(lines) THEN -1
    ELSE LET line_len == Len(lines[i]) + 1
         IN  IF accumulated_len + line_len > maxLen THEN -1
             ELSE IF i + 1 <= Len(lines) /\ is_section_boundary(lines[i + 1])
                  THEN accumulated_len + Len(lines[i])
                  ELSE ScanLines(lines, i + 1, accumulated_len + line_len, maxLen)

\* last_space > max_len * 0.6
PastSixtyPercent(last_space, maxLen) == 10 * last_space > 6 * maxLen

find_best_split_point(text, maxLen) ==
    IF Len(text) <= maxLen THEN Len(text)
    ELSE LET boundary == ScanLines(SplitLines(Slice(text, 0, maxLen)), 1, 0, maxLen)
             last_space == RFind(Slice(text, 0, maxLen), " ")
         IN  IF boundary >= 0 THEN boundary
             ELSE IF PastSixtyPercent(last_space, maxLen) THEN last_space
             ELSE maxLen

(***************************************************************************)
(* split_long_text.  The while loop is a recursion on start; an iteration  *)
(* that leaves start where it was repeats forever, which the result        *)
(* records as loops = TRUE.                                                *)
(***************************************************************************)
SplitEnd(text, start, maxLen, respect_sections) ==
    IF respect_sections
    THEN start + find_best_split_point(Slice(text, start, Len(text)), maxLen)
    ELSE LET end0 == Min(start + maxLen, Len(text))
             last_space == RFind(Slice(text, start, end0), " ")
         IN  IF end0 < Len(text) /\ PastSixtyPercent(last_space, maxLen)
             THEN start + last_space ELSE end0

RECURSIVE SplitFrom(_, _, _, _)
SplitFrom(text, start, maxLen, respect_sections) ==
    IF start >= Len(text) THEN [segments |-> <<>>, loops |-> FALSE]
    ELSE LET remaining == Slice(text, start, Len(text))
         IN  IF Len(remaining) <= maxLen
             THEN [segments |-> IF Strip(remaining) # <<>> THEN <<Strip(remaining)>> ELSE <<>>,
                   loops |-> FALSE]
             ELSE LET end == SplitEnd(text, start, maxLen, respect_sections)
                      segment == Strip(Slice(text, start, end))
                      here == IF segment # <<>> THEN <<segment>> ELSE <<>>
                  IN  IF end <= start
                      THEN [segments |-> here, loops |-> TRUE]
                      ELSE LET rest == SplitFrom(text, end, maxLen, respect_sections)
                           IN  [segments |-> here \o rest.segments, loops |-> rest.loops]

split_long_text(text, maxLen, respect_sections) ==
    SplitFrom(text, 0, maxLen, respect_sections)


(***************************************************************************)
(* chunk_pages                                                             *)
(***************************************************************************)
\* lines 131-141: the (page_number, segment) list; loops when split_long_text
\* never returns for some page
RECURSIVE PageSegments(_, _, _)
PageSegments(ps, maxLen, respect_sections) ==
    IF ps = <<>> THEN [segments |-> <<>>, loops |-> FALSE]
    ELSE LET page == Head(ps)
             text == Strip(page.text)
             rest == PageSegments(Tail(ps), maxLen, respect_sections)
         IN  IF text = <<>> THEN rest
             ELSE IF Len(text) <= maxLen
             THEN [segments |-> <<<<page.pageNumber, text>>>> \o rest.segments,
                   loops |-> rest.loops]
             ELSE LET sp == split_long_text(text, maxLen, respect_sections)
                  IN  IF sp.loops THEN [segments |-> <<>>, loops |-> TRUE]
                      ELSE [segments |-> [i \in 1..Len(sp.segments) |->
                                             <<page.pageNumber, sp.segments[i]>>]
                                         \o rest.segments,
                            loops |-> rest.loops]

MakeChunk(current_text, current_pages) ==
    [text |-> current_text,
     pageRange |-> IF current_pages # <<>>
                   THEN <<SetMin(Range(current_pages)), SetMax(Range(current_pages))>>
                   ELSE <<0, 0>>,
     length |-> Len(current_text)]

\* lines 163-170: the text carried from the emitted chunk into the next buffer
OverlapText(current_text, segment_text, maxLen, ovl) ==
    LET overlap_text == IF ovl > 0 THEN Strip(LastN(current_text, ovl)) ELSE <<>>
        available == maxLen - Len(segment_text) - 1
    IN  IF overlap_text = <<>> THEN <<>>
        ELSE IF available <= 0 THEN <<>>
        ELSE IF available < Len(overlap_text) THEN LastN(overlap_text, available)
        ELSE overlap_text

\* lines 153-154: the buffer is emitted before this segment is taken
EmitsBefore(current_text, segment_text, minLen, maxLen) ==
    Len(current_text) + 1 + Len(segment_text) > maxLen /\ Len(current_text) >= minLen

\* the final buffer emitted only when it has reached min_len
FlushBufferMinLen(out, current_text, current_pages, minLen) ==
    IF current_text # <<>> /\ Len(current_text) >= minLen
    THEN Append(out, MakeChunk(current_text, current_pages))
    ELSE out

\* lines 178-184: what is left in the buffer after the loop is emitted,
\* whatever min_len is
FlushBuffer(out, current_text, current_pages, minLen) ==
    IF current_text # <<>> THEN Append(out, MakeChunk(current_text, current_pages))
    ELSE out

\* lines 147-176: one iteration of the accumulation loop
RECURSIVE Accumulate(_, _, _, _, _, _, _)
Accumulate(segs, out, current_text, current_pages, minLen, maxLen, ovl) ==
    IF segs = <<>>
    THEN FlushBuffer(out, current_text, current_pages, minLen)
    ELSE LET page_number == Head(segs)[1]
             segment_text == Head(segs)[2]
         IN  IF current_text = <<>>
             THEN Accumulate(Tail(segs), out, segment_text, <<page_number>>,
                             minLen, maxLen, ovl)
             ELSE IF EmitsBefore(current_text, segment_text, minLen, maxLen)
             THEN LET overlap_text == OverlapText(current_text, segment_text, maxLen, ovl)
                  IN  Accumulate(Tail(segs),
                                 Append(out, MakeChunk(current_text, current_pages)),
                                 IF overlap_text # <<>>
                                 THEN Strip(overlap_text \o <<" ">> \o segment_text)
                                 ELSE segment_text,
                                 <<current_pages[Len(current_pages)], page_number>>,
                                 minLen, maxLen, ovl)
             ELSE Accumulate(Tail(segs), out,
                             Strip(current_text \o <<" ">> \o segment_text),
                             IF page_number \in Range(current_pages) THEN current_pages
                             ELSE Append(current_pages, page_number),
                             minLen, maxLen, ovl)

chunk_pages(ps, minLen, maxLen, ovl, respect_sections) ==
    LET sg == PageSegments(ps, maxLen, respect_sections)
    IN  IF sg.loops THEN [returns |-> FALSE, chunks |-> <<>>]
        ELSE [returns |-> TRUE,
              chunks |-> Accumulate(sg.segments, <<>>, <<>>, <<>>, minLen, maxLen, ovl)]

(***************************************************************************)
(* Vector ingestion: vector_ingest.py.                                     *)
(*                                                                         *)
(* Every network call of the handler is one step of an invocation, so that *)
(* invocations running in different containers interleave at their         *)
(* suspension points.  The store answers from its state; a response may    *)
(* also be a failure, or an embedding of an unexpected length, while the   *)
(* fault budget lasts.                                                     *)
(***************************************************************************)
Runs == {1, 2}

\* the documents: (tenantId, datasetId, fileId) of the event
Keys == {[tenant |-> "t1", dataset |-> "s1", doc |-> "d1"],
         [tenant |-> "t1", dataset |-> "s1", doc |-> "d2"]}
\* with two containers, the orchestrator gives each its own document
KeyOfSlot(r) == CHOOSE k \in Keys : k.doc = (IF r = 1 THEN "d1" ELSE "d2")

\* lengths of the vectors the embedding provider may return
VectorLengths == {2, 3}
\* EMBEDDING_DIMENSION values tried; 0 is the unset variable
Dimensions == {-1, 0, 2}
\* OPENSEARCH_COLLECTION_ENDPOINT values tried
Endpoints == {<<>>, <<"e", "s">>, <<"h", "t", "t", "p", ":", "/", "/", "e", "s", "/">>}

StartsWith(s, prefix) ==
    Len(s) >= Len(prefix) /\ SubSeq(s, 1, Len(prefix)) = prefix

\* str.rstrip("/")
RECURSIVE RStripSlash(_)
RStripSlash(s) == IF s # <<>> /\ s[Len(s)] = "/"
                  THEN RStripSlash(SubSeq(s, 1, Len(s) - 1)) ELSE s

parse_endpoint(endpoint) ==
    IF StartsWith(endpoint, <<"h", "t", "t", "p">>) THEN RStripSlash(endpoint)
    ELSE RStripSlash(<<"h", "t", "t", "p", "s", ":", "/", "/">> \o endpoint)

\* urlparse(url).netloc of the parsed endpoint is not empty: the request can be sent
HasHost(endpoint) ==
    \E i \in 1..Len(endpoint) - 2 :
        /\ endpoint[i] = "/" /\ endpoint[i + 1] = "/"
        /\ i + 2 <= Len(endpoint) /\ endpoint[i + 2] # "/"

\* lines 293-296: the configuration check, on the values the handler computed
ConfigError(e) ==
    \/ parse_endpoint(e.endpoint) = <<>> \/ e.index_name = "" \/ e.model_id = ""
    \/ e.embedding_dimension <= 0

Envs == [endpoint : Endpoints, index_name : {"", "idx"}, model_id : {"", "m"},
         embedding_dimension : Dimensions,
         batch_size : 1..MaxBatch, concurrency : 1..MaxWorkers]

\* a chunks file: record i is blank (empty at an odd place, a space at an even
\* one) or carries its own text
Word(i) == <<"w", CASE i = 1 -> "a" [] i = 2 -> "b" [] i = 3 -> "c" [] OTHER -> "d">>
BlankText(i) == IF i % 2 = 1 THEN <<>> ELSE <<" ">>
ChunkFiles ==
    UNION {{[i \in 1..n |-> [text |-> IF i \in blank THEN BlankText(i) ELSE Word(i)]] :
              blank \in SUBSET (1..n)} : n \in 0..MaxRecords}

\* the other container
Other(r) == CHOOSE o \in Runs : o # r

IdleRun == [pc |-> "idle", key |-> CHOOSE k \in Keys : TRUE, records |-> <<>>, pos |-> 0,
            batch |-> <<>>, futures |-> <<>>, order |-> <<>>, processed |-> 0,
            nbatches |-> 0, nbulk |-> 0, calls |-> {}, written |-> {}, error |-> "",
            id |-> 0, result |-> -1, seen |-> "", ensure |-> <<>>, deleted |-> 0,
            metric |-> ""]

\* lines 205-214 for the fields the store is queried by
normalize_record(record, key, chunk_index) ==
    [tenant_id |-> key.tenant, dataset_id |-> key.dataset, doc_id |-> key.doc,
     chunk_index |-> chunk_index, text |-> record.text]

\* as IsBlank, only the empty text skipped
IsBlankEmptyOnly(text) == text = <<>>

\* lines 315-317: not text.strip()
IsBlank(text) == Strip(text) = <<>>

\* as BatchFull, the batch sent once it is over the batch size
BatchOverFull(batch, batch_size) == Len(batch) > batch_size

\* line 331: len(batch) >= batch_size
BatchFull(batch, batch_size) == Len(batch) >= batch_size

\* lines 314-331: the loop up to the next full batch, or to the end of the file
RECURSIVE FillBatch(_, _, _, _, _)
FillBatch(records, pos, batch, batch_size, key) ==
    IF pos >= Len(records) THEN [batch |-> batch, pos |-> pos]
    ELSE IF IsBlank(records[pos + 1].text)
         THEN FillBatch(records, pos + 1, batch, batch_size, key)
         ELSE LET grown == Append(batch, normalize_record(records[pos + 1], key, pos))
              IN  IF BatchFull(grown, batch_size) THEN [batch |-> grown, pos |-> pos + 1]
                  ELSE FillBatch(records, pos + 1, grown, batch_size, key)

\* a provider call that has not returned yet
Pending == [done |-> FALSE, of |-> <<>>, len |-> 0]

\* the handler moves on to its next batch, or to line 362 when there is none
Advance(rn, processed) ==
    LET nb == FillBatch(rn.records, rn.pos, <<>>, env.batch_size, rn.key)
    IN  [rn EXCEPT !.pos = nb.pos, !.batch = nb.batch, !.processed = processed,
                   !.futures = [i \in 1..Len(nb.batch) |-> Pending],
                   !.order = <<>>,
                   !.pc = IF nb.batch = <<>> THEN "update_ready" ELSE "embed"]

Called(rn, what) == [rn EXCEPT !.calls = @ \cup {what}]
Raised(rn, why) == [rn EXCEPT !.pc = "except", !.error = why]

CanFault == faults < MaxFaults
Fault == faults' = faults + 1
NoFault == faults' = faults

EndpointOf == parse_endpoint(env.endpoint)

(* lines 272-296: the event and the configuration are read and checked *)
Start(r) ==
    /\ r \in slots
    /\ run[r].pc \in {"idle", "done", "failed"}
    /\ started < MaxRuns
    /\ \E key \in Keys, has_chunks_key \in BOOLEAN :
        /\ Cardinality(slots) > 1 => key = KeyOfSlot(r)
        /\ run' = [run EXCEPT ![r] =
               [IdleRun EXCEPT !.key = key, !.id = started + 1,
                               !.pc = IF ~has_chunks_key \/ ConfigError(env)
                                      THEN "except" ELSE "update_indexing",
                               !.error = IF ~has_chunks_key THEN "chunksKey"
                                         ELSE IF ConfigError(env) THEN "config" ELSE ""]]
    /\ started' = started + 1
    /\ UNCHANGED <<env, index, dataset_status, audit, slots, faults>>
    /\ UNCHANGED notIngest

(* line 299: update_dataset(status = INDEXING) *)
UpdateIndexing(r) ==
    /\ run[r].pc = "update_indexing"
    /\ \/ /\ dataset_status' = "INDEXING"
          /\ run' = [run EXCEPT ![r] = [Called(@, "update_dataset") EXCEPT !.pc = "audit_started"]]
          /\ NoFault
       \/ /\ CanFault /\ Fault
          /\ run' = [run EXCEPT ![r] = Raised(Called(@, "update_dataset"), "update_dataset")]
          /\ UNCHANGED dataset_status
    /\ UNCHANGED <<env, index, audit, slots, started>>
    /\ UNCHANGED notIngest

(* lines 300-304: put_audit(DATASET_INDEXING_STARTED) *)
AuditStarted(r) ==
    /\ run[r].pc = "audit_started"
    /\ \/ /\ audit' = audit \cup {<<"DATASET_INDEXING_STARTED", run[r].id>>}
          /\ run' = [run EXCEPT ![r] = [Called(@, "put_audit") EXCEPT !.pc = "head_index"]]
          /\ NoFault
       \/ /\ CanFault /\ Fault
          /\ run' = [run EXCEPT ![r] = Raised(Called(@, "put_audit"), "put_audit")]
          /\ UNCHANGED audit
    /\ UNCHANGED <<env, index, dataset_status, slots, started>>
    /\ UNCHANGED notIngest

\* the three states of the index with respect to a target dimension
IndexState(idx, dimension) ==
    IF ~idx.exists THEN "ABSENT"
    ELSE IF idx.dimension = dimension THEN "PRESENT_COMPATIBLE"
    ELSE "PRESENT_INCOMPATIBLE"

(* ensure_index, line 87: HEAD /index, then lines 89 and 104-105 on its status *)
HeadIndex(r) ==
    /\ run[r].pc = "head_index"
    /\ \/ /\ ~HasHost(EndpointOf)
          /\ run' = [run EXCEPT ![r] = Raised(Called(@, "index_request"), "no host")]
          /\ NoFault
       \/ /\ HasHost(EndpointOf)
          /\ run' = [run EXCEPT ![r] =
                 [Called(@, "index_request") EXCEPT
                     !.seen = IndexState(index, env.embedding_dimension),
                     !.pc = IF index.exists THEN "get_mapping" ELSE "put_index"]]
          /\ NoFault
       \/ /\ HasHost(EndpointOf) /\ CanFault /\ Fault
          /\ \E status \in {400, 500} :
                run' = [run EXCEPT ![r] =
                    IF status = 400
                    THEN [Called(@, "index_request") EXCEPT
                             !.seen = IndexState(index, env.embedding_dimension),
                             !.pc = "put_index"]
                    ELSE Raised(Called(@, "index_request"), "head status")]
    /\ UNCHANGED <<env, index, dataset_status, audit, slots, started>>
    /\ UNCHANGED notIngest

\* lines 92-97: the dimension the mapping declares differs from the target
NeedsRecreate(existing_dimension, dimension) ==
    existing_dimension # 0 /\ existing_dimension # dimension

(* ensure_index, lines 90-103: GET /index/_mapping *)
GetMapping(r) ==
    /\ run[r].pc = "get_mapping"
    /\ \/ /\ index.exists
          /\ run' = [run EXCEPT ![r].pc =
                 IF NeedsRecreate(index.dimension, env.embedding_dimension)
                 THEN "delete_index" ELSE "delete_doc"]
          /\ NoFault
       \/ /\ ~index.exists       \* 404: the mapping is not read, ensure_index returns
          /\ run' = [run EXCEPT ![r].pc = "delete_doc"]
          /\ NoFault
       \/ /\ CanFault /\ Fault    \* any other status: ensure_index returns as well
          /\ run' = [run EXCEPT ![r].pc = "delete_doc"]
    /\ UNCHANGED <<env, index, dataset_status, audit, slots, started>>
    /\ UNCHANGED notIngest

NoIndex == [exists |-> FALSE, dimension |-> 0, docs |-> {}]

(* ensure_index, lines 98-99: DELETE /index *)
DeleteIndex(r) ==
    /\ run[r].pc = "delete_index"
    /\ \/ /\ index.exists
          /\ index' = NoIndex
          /\ run' = [run EXCEPT ![r].pc = "put_index", ![r].ensure = Append(@, "DELETE")]
          /\ NoFault
       \/ /\ ~index.exists
          /\ run' = [run EXCEPT ![r] = Raised(@, "delete index 404")]
          /\ UNCHANGED index /\ NoFault
       \/ /\ CanFault /\ Fault
          /\ run' = [run EXCEPT ![r] = Raised(@, "delete index")]
          /\ UNCHANGED index
    /\ UNCHANGED <<env, dataset_status, audit, slots, started>>
    /\ UNCHANGED notIngest

(* ensure_index, lines 107-129: PUT /index with the target dimension *)
PutIndex(r) ==
    /\ run[r].pc = "put_index"
    /\ \/ /\ ~index.exists
          /\ index' = [exists |-> TRUE, dimension |-> env.embedding_dimension, docs |-> {}]
          /\ run' = [run EXCEPT ![r].pc = "delete_doc", ![r].ensure = Append(@, "PUT")]
          /\ NoFault
       \/ /\ index.exists         \* 400 resource_already_exists
          /\ run' = [run EXCEPT ![r] = Raised(@, "index exists")]
          /\ UNCHANGED index /\ NoFault
       \/ /\ CanFault /\ Fault
          /\ run' = [run EXCEPT ![r] = Raised(@, "put index")]
          /\ UNCHANGED index
    /\ UNCHANGED <<env, dataset_status, audit, slots, started>>
    /\ UNCHANGED notIngest

\* as MatchesDoc, the doc_id term compared with the dataset id
MatchesDocWrongTerm(d, key) ==
    d.tenant_id = key.tenant /\ d.dataset_id = key.dataset /\ d.doc_id = key.dataset

\* the filter of lines 133-143
MatchesDoc(d, key) ==
    d.tenant_id = key.tenant /\ d.dataset_id = key.dataset /\ d.doc_id = key.doc

(* delete_existing_doc, lines 132-152: POST /index/_delete_by_query; then the *)
(* handler reads the chunks file (line 314) and goes on to its first batch    *)
DeleteDoc(r) ==
    /\ run[r].pc = "delete_doc"
    /\ \/ /\ index' = [index EXCEPT !.docs = {d \in @ : ~MatchesDoc(d, run[r].key)}]
          /\ \E records \in ChunkFiles :
                /\ Len(records) + Len(run[Other(r)].records) <= MaxRecords
                /\ run' = [run EXCEPT ![r] =
                    Advance([Called(@, "delete_by_query") EXCEPT
                                !.records = records,
                                !.deleted = Cardinality({d \in index.docs :
                                                           MatchesDoc(d, run[r].key)})], 0)]
          /\ NoFault
       \/ /\ CanFault /\ Fault
          /\ run' = [run EXCEPT ![r] = Raised(Called(@, "delete_by_query"), "delete_by_query")]
          /\ UNCHANGED index
    /\ UNCHANGED <<env, dataset_status, audit, slots, started>>
    /\ UNCHANGED notIngest

\* the futures of the batch have all returned a vector
AllReturned(rn) == \A i \in 1..Len(rn.futures) : rn.futures[i].done

\* the pool runs the calls in submission order, max_workers at a time
Running(rn, i) ==
    /\ i \in 1..Len(rn.futures) /\ ~rn.futures[i].done
    /\ Cardinality({j \in 1..(i - 1) : ~rn.futures[j].done}) < env.concurrency

(* embed_text, lines 164-179, for text i of the batch: one provider call that *)
(* returns in any order with respect to the other calls of the pool           *)
EmbedText(r, i) ==
    /\ run[r].pc = "embed"
    /\ Running(run[r], i)
    /\ \/ /\ run' = [run EXCEPT ![r] =
                 [Called(@, "embed") EXCEPT
                     !.futures[i] = [done |-> TRUE, of |-> run[r].batch[i].text,
                                     len |-> env.embedding_dimension],
                     !.order = Append(@, i)]]
          /\ NoFault
       \/ /\ CanFault /\ Fault
          /\ \E n \in VectorLengths \ {env.embedding_dimension} :
                run' = [run EXCEPT ![r] =
                    [Called(@, "embed") EXCEPT
                        !.futures[i] = [done |-> TRUE, of |-> run[r].batch[i].text,
                                        len |-> n],
                        !.order = Append(@, i)]]
       \/ /\ CanFault /\ Fault
          /\ run' = [run EXCEPT ![r] = Raised(Called(@, "embed"), "embed")]
    /\ UNCHANGED <<env, index, dataset_status, audit, slots, started>>
    /\ UNCHANGED notIngest

\* as embed_texts, the results taken in the order the calls completed
embed_texts_as_completed(futures, order) ==
    [i \in 1..Len(order) |-> futures[order[i]]]

\* embed_texts, lines 182-184: list(executor.map(...)) yields the results in the
\* order of the input texts, whatever the order the calls completed in
embed_texts(futures, order) == [i \in 1..Len(futures) |-> futures[i]]

\* as DimensionMismatch, the check left out
DimensionUnchecked(embeddings, embedding_dimension) == FALSE

\* lines 333 and 349
DimensionMismatch(embeddings, embedding_dimension) ==
    /\ embedding_dimension # 0 /\ embeddings # <<>>
    /\ embeddings[1].len # embedding_dimension

\* build_bulk_payload, lines 231-239: zip(records, embeddings)
build_bulk_payload(records, embeddings) ==
    [i \in 1..Min(Len(records), Len(embeddings)) |->
        [tenant_id |-> records[i].tenant_id, dataset_id |-> records[i].dataset_id,
         doc_id |-> records[i].doc_id, chunk_index |-> records[i].chunk_index,
         text |-> records[i].text, vector |-> embeddings[i]]]

\* the store refuses a vector whose length is not the mapping's dimension
ItemRejected(idx, doc) == idx.dimension # 0 /\ doc.vector.len # idx.dimension

\* the response to POST /index/_bulk; item j fails for a reason of the store's
\* own when j # 0
BulkResponse(idx, payload, j) ==
    LET items == [i \in 1..Len(payload) |->
                    IF i = j \/ ItemRejected(idx, payload[i]) THEN "error" ELSE "created"]
    IN  [status |-> 200, items |-> items,
         errors |-> \E i \in 1..Len(items) : items[i] = "error"]

\* as ensure_bulk_ok, the errors flag ignored
ensure_bulk_ok_unchecked(response) == TRUE

\* ensure_bulk_ok, lines 242-257: raises exactly on a true errors flag
ensure_bulk_ok(response) == ~response.errors

\* the documents the store holds after the bulk request, each under a fresh _id
Indexed(rn, payload, response) ==
    {[tenant_id |-> payload[i].tenant_id, dataset_id |-> payload[i].dataset_id,
      doc_id |-> payload[i].doc_id, chunk_index |-> payload[i].chunk_index,
      text |-> payload[i].text, vector |-> payload[i].vector,
      id |-> [run |-> rn.id, batch |-> rn.nbatches + 1, pos |-> i]] :
        i \in {k \in 1..Len(payload) : response.items[k] = "created"}}

(* lines 332-345 and 348-360: the embeddings of the batch are checked, the    *)
(* payload is built and POSTed to /index/_bulk, and the response is checked   *)
Bulk(r) ==
    /\ run[r].pc = "embed"
    /\ AllReturned(run[r])
    /\ LET embeddings == embed_texts(run[r].futures, run[r].order)
           payload == build_bulk_payload(run[r].batch, embeddings)
           sent == [Called(run[r], "bulk") EXCEPT !.nbulk = @ + 1]
       IN  \/ /\ DimensionMismatch(embeddings, env.embedding_dimension)
              /\ run' = [run EXCEPT ![r] = Raised(@, "dimension mismatch")]
              /\ UNCHANGED index /\ NoFault
           \/ /\ ~DimensionMismatch(embeddings, env.embedding_dimension)
              /\ ~index.exists          \* 404 index_not_found
              /\ run' = [run EXCEPT ![r] = Raised(sent, "bulk")]
              /\ UNCHANGED index /\ NoFault
           \/ /\ ~DimensionMismatch(embeddings, env.embedding_dimension)
              /\ index.exists
              /\ \E j \in 0..Len(payload) :
                    LET response == BulkResponse(index, payload, j)
                        docs == Indexed(run[r], payload, response)
                        wrote == [sent EXCEPT !.written = @ \cup docs]
                    IN  /\ IF j = 0 THEN NoFault ELSE CanFault /\ Fault
                        /\ index' = [index EXCEPT !.docs = @ \cup docs]
                        /\ run' = [run EXCEPT ![r] =
                               IF ensure_bulk_ok(response)
                               THEN Advance([wrote EXCEPT !.nbatches = @ + 1],
                                            run[r].processed + Len(run[r].batch))
                               ELSE Raised(wrote, "bulk errors")]
           \/ /\ ~DimensionMismatch(embeddings, env.embedding_dimension)
              /\ CanFault /\ Fault       \* status >= 300: nothing is written
              /\ run' = [run EXCEPT ![r] = Raised(sent, "bulk")]
              /\ UNCHANGED index
    /\ UNCHANGED <<env, dataset_status, audit, slots, started>>
    /\ UNCHANGED notIngest

(* line 362: update_dataset(status = READY) *)
UpdateReady(r) ==
    /\ run[r].pc = "update_ready"
    /\ \/ /\ dataset_status' = "READY"
          /\ run' = [run EXCEPT ![r] = [Called(@, "update_ready") EXCEPT !.pc = "audit_ready"]]
          /\ NoFault
       \/ /\ CanFault /\ Fault
          /\ run' = [run EXCEPT ![r] = Raised(@, "update_ready")]
          /\ UNCHANGED dataset_status
    /\ UNCHANGED <<env, index, audit, slots, started>>
    /\ UNCHANGED notIngest

(* line 363: put_audit(DATASET_READY) *)
AuditReady(r) ==
    /\ run[r].pc = "audit_ready"
    /\ \/ /\ audit' = audit \cup {<<"DATASET_READY", run[r].id>>}
          /\ run' = [run EXCEPT ![r].pc = "return"]
          /\ NoFault
       \/ /\ CanFault /\ Fault
          /\ run' = [run EXCEPT ![r] = Raised(@, "audit_ready")]
          /\ UNCHANGED audit
    /\ UNCHANGED <<env, index, dataset_status, slots, started>>
    /\ UNCHANGED notIngest

\* as publish_metric, the error of put_metric_data not caught
publish_metric_uncaught(rn, fails) ==
    IF fails THEN Raised([rn EXCEPT !.metric = "failed"], "put_metric_data")
    ELSE [rn EXCEPT !.metric = "sent"]

\* lines 260-269: an error of put_metric_data is caught and logged
publish_metric(rn, fails) == [rn EXCEPT !.metric = IF fails THEN "failed" ELSE "sent"]

(* lines 365-381: the metrics are published and the event is returned with   *)
(* vectorIngested; an error escaping publish_metric would be raised inside   *)
(* the try block                                                             *)
Return(r) ==
    /\ run[r].pc = "return"
    /\ \E fails \in BOOLEAN :
          /\ IF fails THEN CanFault /\ Fault ELSE NoFault
          /\ LET after == publish_metric(run[r], fails)
             IN  run' = [run EXCEPT ![r] = IF after.pc = "except" THEN after
                                           ELSE [after EXCEPT !.pc = "done",
                                                              !.result = after.processed]]
    /\ UNCHANGED <<env, index, dataset_status, audit, slots, started>>
    /\ UNCHANGED notIngest

(* lines 382-393: the failure metric is published, the error is raised again; *)
(* an error escaping publish_metric would leave the handler in its place      *)
Except(r) ==
    /\ run[r].pc = "except"
    /\ \E fails \in BOOLEAN :
          /\ IF fails THEN CanFault /\ Fault ELSE NoFault
          /\ run' = [run EXCEPT ![r] = [publish_metric(run[r], fails) EXCEPT !.pc = "failed"]]
    /\ UNCHANGED <<env, index, dataset_status, audit, slots, started>>
    /\ UNCHANGED notIngest

NextIngest ==
    \E r \in Runs :
        \/ Start(r) \/ UpdateIndexing(r) \/ AuditStarted(r)
        \/ HeadIndex(r) \/ GetMapping(r) \/ DeleteIndex(r) \/ PutIndex(r)
        \/ DeleteDoc(r)
        \/ \E i \in 1..MaxBatch : EmbedText(r, i)
        \/ Bulk(r)
        \/ UpdateReady(r) \/ AuditReady(r) \/ Return(r) \/ Except(r)

\* chunks an earlier invocation left in the index, with vectors of length n
StaleDocs(n) ==
    {[tenant_id |-> k.tenant, dataset_id |-> k.dataset, doc_id |-> k.doc,
      chunk_index |-> i - 1, text |-> Word(i),
      vector |-> [done |-> TRUE, of |-> Word(i), len |-> n],
      id |-> [run |-> 0, batch |-> 1, pos |-> i]] : k \in Keys, i \in 1..2}

InitialIndexes ==
    {NoIndex} \cup
    UNION {{[exists |-> TRUE, dimension |-> n, docs |-> d] : d \in {{}, StaleDocs(n)}} :
              n \in VectorLengths}

IngestOff ==
    /\ env = [endpoint |-> <<>>, index_name |-> "", model_id |-> "",
              embedding_dimension |-> 0, batch_size |-> 1, concurrency |-> 1]
    /\ index = NoIndex /\ dataset_status = "" /\ audit = {}
    /\ run = [r \in Runs |-> IdleRun]
    /\ slots = {} /\ started = 0 /\ faults = 0

InitIngestIn(S, f) ==
    /\ env \in Envs
    /\ index \in InitialIndexes
    /\ dataset_status = "CHUNKED"
    /\ audit = {}
    /\ run = [r \in Runs |-> IdleRun]
    /\ slots = S /\ started = 0 /\ faults = f

(***************************************************************************)
(* The cached connection of common/postgres.py.  Callers are threads of    *)
(* one process; each step below is one they can be preempted after.        *)
(***************************************************************************)
MaxConns == 3

Threads == {1, 2}

IdleThread == [pc |-> "idle", got |-> 0]

ConnOff ==
    /\ connection = 0 /\ handles = <<>>
    /\ thread = [t \in Threads |-> IdleThread]

\* line 30: _connection is None or _connection.closed
Stale(c, h) == c = 0 \/ h[c] = "closed"

(* a caller enters get_connection *)
Call(t) ==
    /\ thread[t].pc \in {"idle", "returned", "raised"}
    /\ thread' = [thread EXCEPT ![t] = [pc |-> "check", got |-> 0]]
    /\ UNCHANGED <<connection, handles>>
    /\ UNCHANGED notConn

(* get_connection, line 30: the liveness check *)
Check(t) ==
    /\ thread[t].pc = "check"
    /\ thread' = [thread EXCEPT ![t].pc =
                     IF Stale(connection, handles) THEN "connect" ELSE "return"]
    /\ UNCHANGED <<connection, handles>>
    /\ UNCHANGED notConn

(* get_connection, lines 31-40: get_db_secret, psycopg2.connect, the         *)
(* assignment to _connection; either call may raise                          *)
Connect(t) ==
    /\ thread[t].pc = "connect"
    /\ \/ /\ Len(handles) < MaxConns
          /\ handles' = Append(handles, "open")
          /\ connection' = Len(handles) + 1
          /\ thread' = [thread EXCEPT ![t].pc = "return"]
       \/ /\ thread' = [thread EXCEPT ![t].pc = "raised"]
          /\ UNCHANGED <<connection, handles>>
    /\ UNCHANGED notConn

(* get_connection, line 41: return _connection *)
ReturnConnection(t) ==
    /\ thread[t].pc = "return"
    /\ thread' = [thread EXCEPT ![t] = [pc |-> "returned", got |-> connection]]
    /\ UNCHANGED <<connection, handles>>
    /\ UNCHANGED notConn

(* close_connection, lines 155-160, by a caller outside get_connection *)
close_connection(t) ==
    /\ thread[t].pc \in {"idle", "returned", "raised"}
    /\ connection # 0 /\ handles[connection] = "open"
    /\ handles' = [handles EXCEPT ![connection] = "closed"]
    /\ connection' = 0
    /\ UNCHANGED thread
    /\ UNCHANGED notConn

(* the server ends a connection: the handle's closed attribute, read at     *)
(* line 30, becomes set                                                     *)
ConnectionLost ==
    /\ \E h \in 1..Len(handles) :
          /\ handles[h] = "open"
          /\ handles' = [handles EXCEPT ![h] = "closed"]
    /\ UNCHANGED <<connection, thread>>
    /\ UNCHANGED notConn

(***************************************************************************)
(* The chunks table of the relational store, unique on chunk_id.  A column *)
(* value is a tag, so that an overwritten column shows.                    *)
(***************************************************************************)
MaxRows == 2

ChunkIds == {"c1", "c2"}
Tags == {1, 2}
Acls == {"None", "g"}

\* the columns of the INSERT, lines 107-111
Columns ==
    {"tenant_id", "dataset_id", "doc_id", "chunk_id", "source_uri", "filename",
     "page", "chunk_index", "text", "embedding", "content_hash", "embedding_model",
     "acl", "created_at", "doc_type", "discipline", "section_reference",
     "standards_referenced"}

\* as UpdateColumns, filename overwritten as well
UpdateColumnsWithFilename ==
    {"text", "embedding", "content_hash", "created_at", "filename"}

\* the DO UPDATE SET clause, lines 112-116
UpdateColumns == {"text", "embedding", "content_hash", "created_at"}

UpsertOff == table = {} /\ before = {} /\ values = <<>> /\ ustage = "off"

\* a record bulk_insert_chunks is called with
Records == [chunk_id : ChunkIds, tag : Tags, acl : Acls]

(* the caller's list of records grows by one record *)
AddRecord ==
    /\ ustage # "off"
    /\ \E record \in Records :
          IF ustage = "building"
          THEN /\ Len(values) < MaxRows
               /\ values' = Append(values, record)
          ELSE values' = <<record>>
    /\ ustage' = "building"
    /\ before' = {}
    /\ UNCHANGED table
    /\ UNCHANGED notUpsert

EmbeddingOf(record) == [of |-> record.tag]

\* lines 81-101: the tuple of one record and its embedding
ValueTuple(record, embedding) ==
    [c \in Columns |->
        CASE c = "chunk_id" -> record.chunk_id
          [] c = "embedding" -> embedding
          [] c = "acl" -> IF record.acl = "None" THEN "empty" ELSE record.acl
          [] OTHER -> record.tag]

\* two proposed rows with one chunk_id: the statement fails
AffectsRowTwice(vals) ==
    \E i, j \in 1..Len(vals) : i < j /\ vals[i]["chunk_id"] = vals[j]["chunk_id"]

\* lines 107-116: INSERT ... ON CONFLICT (chunk_id) DO UPDATE SET, one row
InsertOnConflict(rows, excluded) ==
    IF \E row \in rows : row["chunk_id"] = excluded["chunk_id"]
    THEN {IF row["chunk_id"] = excluded["chunk_id"]
          THEN [c \in Columns |-> IF c \in UpdateColumns THEN excluded[c] ELSE row[c]]
          ELSE row : row \in rows}
    ELSE rows \cup {excluded}

RECURSIVE execute_values(_, _)
execute_values(rows, vals) ==
    IF vals = <<>> THEN rows
    ELSE execute_values(InsertOnConflict(rows, Head(vals)), Tail(vals))

(* bulk_insert_chunks, lines 71-122, called with the records listed *)
bulk_insert_chunks ==
    /\ ustage \in {"ready", "building"}
    /\ LET vals == [i \in 1..Len(values) |->
                       ValueTuple(values[i], EmbeddingOf(values[i]))]
       IN  /\ before' = table
           /\ values' = vals
           /\ IF AffectsRowTwice(vals)
              THEN table' = table /\ ustage' = "raised"
              ELSE table' = execute_values(table, vals) /\ ustage' = "inserted"
    /\ UNCHANGED notUpsert

(* delete_existing_doc, lines 51-68 *)
delete_existing_doc ==
    /\ ustage \notin {"off", "building"}
    /\ \E g \in Tags :
          table' = {row \in table :
                       ~(row["tenant_id"] = g /\ row["dataset_id"] = g /\ row["doc_id"] = g)}
    /\ before' = table
    /\ values' = <<>>
    /\ ustage' = "deleted"
    /\ UNCHANGED notUpsert

(***************************************************************************)
(* Segmentation runs: a document is made page by page, then chunk.py's     *)
(* handler calls chunk_pages on it.                                        *)
(***************************************************************************)
ChunkAlphabet == {"a", " "}

ChunkOff ==
    /\ pages = <<>> /\ min_len = 0 /\ max_len = 0 /\ overlap = 0
    /\ chunks = <<>> /\ cstage = "off"

InitChunk ==
    /\ IngestOff /\ ConnOff /\ DispOff /\ UpsertOff /\ PureOff /\ QualOff
    /\ pages = <<>>
    /\ min_len \in 1..MaxParam
    /\ max_len \in 1..MaxParam
    /\ overlap \in 0..MaxParam
    /\ chunks = <<>>
    /\ cstage = "input"

AddPage ==
    /\ cstage = "input"
    /\ Len(pages) < MaxPages
    /\ \E n \in 0..(MaxChars - SumLen(pages)) :
         \E t \in [1..n -> ChunkAlphabet] :
            pages' = Append(pages, [pageNumber |-> Len(pages) + 1, text |-> t])
    /\ UNCHANGED <<min_len, max_len, overlap, chunks, cstage>>
    /\ UNCHANGED notChunk

RunChunkPages ==
    /\ cstage = "input"
    /\ LET r == chunk_pages(pages, min_len, max_len, overlap, TRUE)
       IN  /\ chunks' = r.chunks
           /\ cstage' = IF r.returns THEN "done" ELSE "hung"
    /\ UNCHANGED <<pages, min_len, max_len, overlap>>
    /\ UNCHANGED notChunk

\* chunk.py lines 23-64: the records of the chunks are written as the chunk
\* file, the dataset is set to CHUNKED and the event is returned with
\* chunkCount = len(chunks)
ChunkHandlerReturn ==
    /\ cstage = "done"
    /\ cstage' = "returned"
    /\ dataset_status' = "CHUNKED"
    /\ UNCHANGED <<pages, min_len, max_len, overlap, chunks>>
    /\ UNCHANGED <<env, index, audit, run, slots, started, faults>>
    /\ UNCHANGED <<connVars, upsertVars, pureVars, qualVars, dispVars>>

NextChunk == AddPage \/ RunChunkPages \/ ChunkHandlerReturn

SpecChunk == InitChunk /\ [][NextChunk]_vars

(***************************************************************************)
(* Ingestion runs.  SpecIngest: one container, its invocations one after   *)
(* another, calls may fail.  SpecConcurrent: two containers, no call fails  *)
(* by itself.                                                              *)
(***************************************************************************)
InitIngest == ChunkOff /\ ConnOff /\ DispOff /\ UpsertOff /\ PureOff /\ QualOff /\ InitIngestIn({1}, 0)
SpecIngest == InitIngest /\ [][NextIngest]_vars

InitConcurrent ==
    ChunkOff /\ ConnOff /\ DispOff /\ UpsertOff /\ PureOff /\ QualOff /\ InitIngestIn({1, 2}, MaxFaults)
SpecConcurrent == InitConcurrent /\ [][NextIngest]_vars

\* C1: every chunk chunk_pages returns, except possibly the last one of the
\* document, has length <= max_len.
C1_ChunksWithinMaxLen ==
    cstage = "done" =>
        \A i \in 1..(Len(chunks) - 1) : chunks[i].length <= max_len

\* a run that returned at least two chunks, so that a non-final chunk exists
C1_Witness == cstage = "done" /\ Len(chunks) >= 2


(***************************************************************************)
(* SpecConn: two threads of one process use the cached connection.         *)
(* SpecUpsert: statements run one after another on the chunks table.       *)
(***************************************************************************)
InitConn == ChunkOff /\ IngestOff /\ UpsertOff /\ PureOff /\ QualOff /\ ConnOff /\ DispOff

NextConn ==
    \/ \E t \in Threads : Call(t)
    \/ \E t \in Threads : Check(t)
    \/ \E t \in Threads : Connect(t)
    \/ \E t \in Threads : ReturnConnection(t)
    \/ \E t \in Threads : close_connection(t)
    \/ ConnectionLost

SpecConn == InitConn /\ [][NextConn]_vars

InitUpsert ==
    /\ ChunkOff /\ IngestOff /\ ConnOff /\ DispOff /\ PureOff /\ QualOff
    /\ table = {} /\ before = {} /\ values = <<>> /\ ustage = "ready"

NextUpsert == AddRecord \/ bulk_insert_chunks \/ delete_existing_doc

SpecUpsert == InitUpsert /\ [][NextUpsert]_vars

(***************************************************************************)
(* Claims about vector ingestion.                                          *)
(***************************************************************************)
\* the chunks the store holds for a (tenantId, datasetId, docId)
StoredFor(key) ==
    {d \in index.docs :
        d.tenant_id = key.tenant /\ d.dataset_id = key.dataset /\ d.doc_id = key.doc}

NonBlank(records) == {i \in 1..Len(records) : Strip(records[i].text) # <<>>}

C3_EmbeddingsAligned ==
    /\ \A r \in Runs :
          (run[r].pc = "embed" /\ AllReturned(run[r])) =>
              LET e == embed_texts(run[r].futures, run[r].order)
              IN  /\ Len(e) = Len(run[r].batch)
                  /\ \A i \in 1..Len(e) : e[i].of = run[r].batch[i].text
    /\ \A d \in index.docs : d.vector.of = d.text

\* the calls of a batch of two returned in the reverse of the input order
C3_Witness ==
    \E r \in Runs :
        /\ run[r].pc = "embed" /\ AllReturned(run[r])
        /\ run[r].order = <<2, 1>>

\* C4: with the store endpoint, the index name or the model id missing, or a
\* target dimension that is not positive, the handler fails before any
\* network call: no dataset update, audit write, index request,
\* delete-by-filter or embedding call of that invocation.
C4_FailsBeforeAnyCall ==
    (\/ env.endpoint = <<>> \/ env.index_name = "" \/ env.model_id = ""
     \/ env.embedding_dimension <= 0) =>
        \A r \in Runs :
            /\ run[r].calls = {}
            /\ run[r].pc \in {"idle", "except", "failed"}

\* an invocation failed on a missing index name without any call
C4_Witness ==
    \E r \in Runs :
        /\ env.index_name = "" /\ env.endpoint # <<>>
        /\ run[r].pc = "failed" /\ run[r].calls = {}

\* C5: when the first vector of batch k has a length other than the target
\* dimension, the invocation aborts: no bulk request is sent for batch k or a
\* later batch and none of their chunks is stored, while the chunks of
\* batches 1..k-1 stay stored.
FirstVectorWrong(rn) ==
    /\ rn.futures # <<>> /\ rn.futures[1].done
    /\ rn.futures[1].len # env.embedding_dimension

C5_MismatchAborts ==
    \A r \in Runs :
        FirstVectorWrong(run[r]) =>
            /\ run[r].pc \in {"embed", "except", "failed"}
            /\ run[r].nbulk = run[r].nbatches
            /\ \A d \in index.docs :
                  d.id.run = run[r].id => d.id.batch <= run[r].nbatches
            /\ run[r].written \subseteq index.docs
            /\ Cardinality(run[r].written) = run[r].processed

\* an invocation failed on the mismatch in its second or a later batch
C5_Witness ==
    \E r \in Runs :
        /\ FirstVectorWrong(run[r]) /\ run[r].pc = "failed"
        /\ run[r].error = "dimension mismatch"
        /\ run[r].nbatches >= 1 /\ run[r].written # {}

C7_EnsureIndexStateMachine ==
    \A r \in Runs :
        run[r].pc = "delete_doc" =>
            /\ run[r].seen = "ABSENT" => run[r].ensure = <<"PUT">>
            /\ run[r].seen = "PRESENT_INCOMPATIBLE" => run[r].ensure = <<"DELETE", "PUT">>
            /\ run[r].seen = "PRESENT_COMPATIBLE" => run[r].ensure = <<>>
            /\ IndexState(index, env.embedding_dimension) = "PRESENT_COMPATIBLE"

\* ensure_index returned after it found the index incompatible
C7_Witness ==
    \E r \in Runs :
        run[r].pc = "delete_doc" /\ run[r].seen = "PRESENT_INCOMPATIBLE"

\* C8: invocations for different documents running at the same time are
\* independent: none fails unless one of its own calls failed, and when an
\* invocation has returned the chunks stored for its document are its own.
C8_IndependentRuns ==
    run[1].key # run[2].key =>
        \A r \in Runs :
            /\ faults = MaxFaults => run[r].error \in {"", "chunksKey", "config", "no host"}
            /\ run[r].pc = "done" => StoredFor(run[r].key) = run[r].written

\* two invocations for different documents are under way
C8_Witness ==
    /\ run[1].pc \notin {"idle", "done", "failed"}
    /\ run[2].pc \notin {"idle", "done", "failed"}
    /\ run[1].key # run[2].key

\* C9: get_connection keeps a single cached handle: a connection that is open
\* is the cached one, a caller reaches the connect step only while the cache
\* is empty or closed, every call returns a handle, and callers running at
\* the same time establish one connection and receive the same handle.
C9_SingleCachedHandle ==
    /\ \A h \in 1..Len(handles) : handles[h] = "open" => h = connection
    /\ \A t \in Threads : thread[t].pc = "connect" => Stale(connection, handles)
    /\ \A t \in Threads : thread[t].pc = "returned" => thread[t].got # 0
    /\ \A t, u \in Threads :
          (thread[t].pc = "returned" /\ thread[u].pc = "returned"
             /\ thread[t].got # 0 /\ thread[u].got # 0
             /\ handles[thread[t].got] = "open" /\ handles[thread[u].got] = "open")
          => thread[t].got = thread[u].got

\* both callers have returned from get_connection
C9_Witness ==
    \A t \in Threads : thread[t].pc = "returned" /\ thread[t].got # 0

\* C10: after bulk_insert_chunks wrote a row whose chunk_id the table already
\* held, the table holds one row for that chunk_id, its text, embedding,
\* content_hash and created_at are the written ones and each of its other
\* columns has the value it had before.
C10_UpsertOverwritesContentOnly ==
    ustage = "inserted" =>
        \A i \in 1..Len(values) : \A old \in before :
            old["chunk_id"] = values[i]["chunk_id"] =>
                LET now == {row \in table : row["chunk_id"] = old["chunk_id"]}
                IN  /\ Cardinality(now) = 1
                    /\ \A row \in now :
                          /\ \A c \in {"text", "embedding", "content_hash", "created_at"} :
                                row[c] = values[i][c]
                          /\ \A c \in {"tenant_id", "dataset_id", "doc_id", "source_uri",
                                       "filename", "page", "chunk_index",
                                       "embedding_model", "acl", "doc_type", "discipline",
                                       "section_reference", "standards_referenced"} :
                                row[c] = old[c]

\* a statement wrote a row over one that differed from it in every column
C10_Witness ==
    /\ ustage = "inserted"
    /\ \E i \in 1..Len(values) : \E old \in before :
          /\ old["chunk_id"] = values[i]["chunk_id"]
          /\ old["filename"] # values[i]["filename"]
          /\ old["acl"] # values[i]["acl"]
          /\ old["text"] # values[i]["text"]

(***************************************************************************)
(* ensure_bulk_ok (vector_ingest.py) on the responses of up to MaxItems    *)
(* items.  The error of item i is named i.                                 *)
(***************************************************************************)
MaxItems == 5

\* a response: whether it has a body, the top-level errors flag of the body,
\* and per item whether its action carries an error
BulkResponses ==
    UNION {[body : BOOLEAN, errors : {"absent", "false", "true"},
            items : [1..n -> BOOLEAN]] : n \in 0..MaxItems}

\* lines 248-255: the errors of the items, in item order
RECURSIVE ItemErrors(_, _)
ItemErrors(items, i) ==
    IF i > Len(items) THEN <<>>
    ELSE (IF items[i] THEN <<i>> ELSE <<>>) \o ItemErrors(items, i + 1)

\* as ErrorSample, every error kept
ErrorSampleAll(errors) == errors

\* line 256: errors[:3]
ErrorSample(errors) == SubSeq(errors, 1, Min(3, Len(errors)))

\* ensure_bulk_ok, lines 242-257: whether it raises, and the sample it raises with
EnsureBulkOk(response) ==
    IF ~response.body \/ response.errors # "true"
    THEN [raised |-> FALSE, sample |-> <<>>]
    ELSE [raised |-> TRUE, sample |-> ErrorSample(ItemErrors(response.items, 1))]

InitBulkOk ==
    /\ ChunkOff /\ IngestOff /\ ConnOff /\ DispOff /\ UpsertOff /\ QualOff
    /\ arg \in BulkResponses /\ res = <<>> /\ pstage = "input"

CallEnsureBulkOk ==
    /\ pstage = "input"
    /\ res' = EnsureBulkOk(arg)
    /\ pstage' = "done"
    /\ UNCHANGED arg
    /\ UNCHANGED notPure

NextBulkOk == CallEnsureBulkOk

SpecBulkOk == InitBulkOk /\ [][NextBulkOk]_vars

\* C11: ensure_bulk_ok raises exactly when the response carries a true
\* top-level errors flag, and the error it raises carries the first three
\* item errors in item order, all of them when there are fewer than three.
C11_BulkErrorSample ==
    pstage = "done" =>
        LET bad == {i \in 1..Len(arg.items) : arg.items[i]}
        IN  /\ res.raised <=> (arg.body /\ arg.errors = "true")
            /\ res.raised =>
                  /\ Len(res.sample) = Min(3, Cardinality(bad))
                  /\ \A k \in 1..Len(res.sample) :
                        /\ res.sample[k] \in bad
                        /\ Cardinality({i \in bad : i < res.sample[k]}) = k - 1

\* ensure_bulk_ok raised on a response with more than three item errors
C11_Witness ==
    /\ pstage = "done" /\ res.raised
    /\ Cardinality({i \in 1..Len(arg.items) : arg.items[i]}) > 3

\* C12: a chunk record whose text is empty or only whitespace is not put in a
\* batch, not embedded and not stored, and it does not make the invocation
\* fail; when the invocation has returned, vectorIngested is the number of
\* records with non-blank text and the number of chunks it has in the store.
C12_BlankRecordsSkipped ==
    /\ \A d \in index.docs : Strip(d.text) # <<>>
    /\ \A r \in Runs :
          /\ \A i \in 1..Len(run[r].batch) : Strip(run[r].batch[i].text) # <<>>
          /\ \A i \in 1..Len(run[r].futures) :
                run[r].futures[i].done => Strip(run[r].futures[i].of) # <<>>
          /\ faults = 0 => run[r].error \in {"", "chunksKey", "config", "no host"}
          /\ run[r].pc = "done" =>
                /\ run[r].result = Cardinality(NonBlank(run[r].records))
                /\ run[r].result =
                      Cardinality({d \in index.docs : d.id.run = run[r].id})

\* an invocation returned on a file with an empty record, a whitespace record
\* and a record with text
C12_Witness ==
    \E r \in Runs :
        /\ run[r].pc = "done" /\ run[r].result >= 1
        /\ \E i, j \in 1..Len(run[r].records) :
              run[r].records[i].text = <<>> /\ run[r].records[j].text = <<" ">>


\* ---------------------------------------------------------------------------
\* vector_ingest.py normalize_record and common/chunk_records.py, in full.
\* A Python value is a tagged record; a raw record is a function from the
\* keys it holds to values.
\* ---------------------------------------------------------------------------

MaxFields == 3

None == [t |-> "none", v |-> <<>>]
PyStr(s) == [t |-> "str", v |-> s]
PyInt(n) == [t |-> "int", v |-> n]
PyList(l) == [t |-> "list", v |-> l]

\* truth value of a Python object
Truthy(x) == CASE x.t = "none" -> FALSE
               [] x.t = "int" -> x.v # 0
               [] OTHER -> x.v # <<>>

\* x or y
Or(x, y) == IF Truthy(x) THEN x ELSE y

\* record.get(key, default) and record.get(key)
GetDefault(record, key, default) == IF key \in DOMAIN record THEN record[key] ELSE default
Get(record, key) == GetDefault(record, key, None)

\* record[key] = value and record.pop(key, None)
SetKey(record, key, value) == [k \in DOMAIN record \cup {key} |-> IF k = key THEN value ELSE record[k]]
Pop(record, key) == [k \in DOMAIN record \ {key} |-> record[k]]

DigitChar(d) == CASE d = 0 -> "0" [] d = 1 -> "1" [] d = 2 -> "2" [] d = 3 -> "3" [] d = 4 -> "4"
                  [] d = 5 -> "5" [] d = 6 -> "6" [] d = 7 -> "7" [] d = 8 -> "8" [] OTHER -> "9"

\* str(n) for n >= 0
RECURSIVE Decimal(_)
Decimal(n) == IF n < 10 THEN <<DigitChar(n)>> ELSE Decimal(n \div 10) \o <<DigitChar(n % 10)>>

\* the text an f-string puts for {x}
Format(x) == CASE x.t = "none" -> <<"N", "o", "n", "e">>
               [] x.t = "int" -> Decimal(x.v)
               [] OTHER -> x.v

\* text.split(): the maximal runs of non-whitespace characters
RECURSIVE SplitWords(_, _)
SplitWords(s, word) ==
    IF s = <<>> THEN (IF word = <<>> THEN <<>> ELSE <<word>>)
    ELSE IF IsSpace(Head(s))
         THEN (IF word = <<>> THEN <<>> ELSE <<word>>) \o SplitWords(Tail(s), <<>>)
         ELSE SplitWords(Tail(s), Append(word, Head(s)))

\* " ".join(words)
RECURSIVE JoinWords(_)
JoinWords(words) == IF words = <<>> THEN <<>>
                    ELSE IF Len(words) = 1 THEN words[1]
                    ELSE words[1] \o <<" ">> \o JoinWords(Tail(words))

\* as normalize_text, the text left as it is
normalize_text_identity(text) == text

\* chunk_records.py lines 12-13
normalize_text(text) == JoinWords(SplitWords(text, <<>>))

\* hashlib.sha256(base).hexdigest(): the digest stands for its input, so two
\* digests are equal exactly when the inputs are
sha256(base) == PyStr(<<"sha256">> \o base)

\* chunk_records.py lines 16-19
compute_content_hash(doc_id, page, chunk_index, text) ==
    LET normalized == normalize_text(text.v)
        base == Format(doc_id) \o <<"|">> \o Format(Or(page, PyInt(0))) \o <<"|">>
                \o Format(chunk_index) \o <<"|">> \o normalized
    IN  sha256(base)

\* chunk_records.py lines 22-54 (the construction metadata of lines 56-67 is
\* derived from the text alone and adds keys normalize_record never touches)
build_chunk_record(tenant_id, dataset_id, doc_id, source_uri, filename, page, chunk_index, text, created_at, embedding_model, acl) ==
    [tenant_id |-> tenant_id, dataset_id |-> dataset_id, doc_id |-> doc_id,
     source_uri |-> source_uri, filename |-> filename, page |-> page,
     chunk_id |-> PyStr(Format(doc_id) \o <<"#", "p">> \o Format(Or(page, PyInt(0)))
                        \o <<"#", "c">> \o Format(chunk_index)),
     chunk_index |-> chunk_index, text |-> text, created_at |-> created_at,
     embedding_model |-> embedding_model,
     content_hash |-> compute_content_hash(doc_id, page, chunk_index, text),
     acl |-> Or(acl, PyList(<<>>))]

\* as PageValue, the page used as it is
PageValueRaw(normalized) == Get(normalized, "page")

\* vector_ingest.py line 217: normalized.get("page") or 0
PageValue(normalized) == Or(Get(normalized, "page"), PyInt(0))

\* vector_ingest.py lines 187-228
NormalizeRecord(record, d) ==
    LET legacy_chunk_id == Get(record, "chunkId")
        n1 == IF Truthy(legacy_chunk_id) /\ ~Truthy(Get(record, "chunk_id"))
              THEN SetKey(record, "chunk_id", legacy_chunk_id) ELSE record
        n2 == Pop(Pop(n1, "metadata"), "chunkId")
        n3 == SetKey(SetKey(n2, "tenant_id", d.tenant_id), "dataset_id", d.dataset_id)
        n4 == SetKey(n3, "doc_id", Or(Get(n3, "doc_id"), d.doc_id))
        n5 == SetKey(n4, "source_uri", Or(Get(n4, "source_uri"), d.source_uri))
        n6 == SetKey(n5, "filename", Or(Get(n5, "filename"), d.filename))
        n7 == SetKey(n6, "chunk_index", GetDefault(n6, "chunk_index", d.chunk_index))
        n8 == SetKey(n7, "page", Get(n7, "page"))
        n9 == SetKey(n8, "created_at", Or(Get(n8, "created_at"), d.created_at))
        n10 == SetKey(n9, "embedding_model", Or(Get(n9, "embedding_model"), d.embedding_model))
        n11 == SetKey(n10, "acl", Or(Get(n10, "acl"), PyList(<<>>)))
        n12 == IF ~Truthy(Get(n11, "chunk_id"))
               THEN SetKey(n11, "chunk_id",
                           PyStr(Format(n11["doc_id"]) \o <<"#", "p">> \o Format(PageValue(n11))
                                 \o <<"#", "c">> \o Format(n11["chunk_index"])))
               ELSE n11
    IN  IF ~Truthy(Get(n12, "content_hash"))
        THEN SetKey(n12, "content_hash",
                    compute_content_hash(n12["doc_id"], Get(n12, "page"), n12["chunk_index"],
                                         GetDefault(n12, "text", PyStr(<<>>))))
        ELSE n12

\* the keyword arguments the handler passes (vector_ingest.py lines 318-328)
Defaults == [tenant_id |-> PyStr(<<"t">>), dataset_id |-> PyStr(<<"s">>), doc_id |-> PyStr(<<"d">>),
             source_uri |-> PyStr(<<"u">>), filename |-> PyStr(<<"f">>), chunk_index |-> PyInt(1),
             created_at |-> PyStr(<<"c">>), embedding_model |-> PyStr(<<"m">>)]

\* the keys a chunk file's record may hold and the values tried for each
RawKeys == {"tenant_id", "dataset_id", "doc_id", "source_uri", "filename", "chunk_index", "page",
            "created_at", "embedding_model", "acl", "chunk_id", "chunkId", "content_hash", "text",
            "metadata"}
RawValues(key) ==
    CASE key \in {"chunk_index", "page"} -> {None, PyInt(0), PyInt(12)}
      [] key = "acl" -> {None, PyList(<<>>), PyList(<<"g">>)}
      [] key = "metadata" -> {PyList(<<"m">>)}
      [] key = "text" -> {PyStr(<<>>), PyStr(<<"a", " ", "\n", "b">>), PyStr(<<" ", "a", " ", "b">>)}
      [] OTHER -> {None, PyStr(<<>>), PyStr(<<"x">>)}

InitNormalize ==
    /\ ChunkOff /\ IngestOff /\ ConnOff /\ DispOff /\ UpsertOff /\ QualOff
    /\ arg = <<>>
    /\ res = <<>>
    /\ pstage = "input"

\* one more key of the record read from the chunk file
SetField ==
    /\ pstage = "input"
    /\ Cardinality(DOMAIN arg) < MaxFields
    /\ \E key \in RawKeys \ DOMAIN arg : \E value \in RawValues(key) :
          arg' = SetKey(arg, key, value)
    /\ UNCHANGED <<res, pstage>>
    /\ UNCHANGED notPure

CallNormalizeRecord ==
    /\ pstage = "input"
    /\ res' = NormalizeRecord(arg, Defaults)
    /\ pstage' = "done"
    /\ UNCHANGED arg
    /\ UNCHANGED notPure

NextNormalize == SetField \/ CallNormalizeRecord

SpecNormalize == InitNormalize /\ [][NextNormalize]_vars

DefaultedKeys == {"tenant_id", "dataset_id", "doc_id", "source_uri", "filename", "chunk_index",
                  "created_at", "embedding_model"}

\* C13: normalize_record uses the supplied default (the empty list for acl)
\* only when the raw record lacks the field; a value the raw record holds is
\* kept unchanged in the normalized record.
C13_PresentValuesKept ==
    pstage = "done" =>
        /\ \A key \in DefaultedKeys :
              /\ (key \in DOMAIN arg /\ Truthy(arg[key])) => res[key] = arg[key]
              /\ key \notin DOMAIN arg => res[key] = Defaults[key]
        /\ ("acl" \in DOMAIN arg /\ Truthy(arg["acl"])) => res["acl"] = arg["acl"]
        /\ "acl" \notin DOMAIN arg => res["acl"] = PyList(<<>>)

C13_Witness ==
    /\ pstage = "done"
    /\ "doc_id" \in DOMAIN arg /\ Truthy(arg["doc_id"]) /\ res["doc_id"] = arg["doc_id"]
    /\ "filename" \notin DOMAIN arg /\ res["filename"] = Defaults["filename"]


\* the decimal text of the integers the raw values and defaults hold
DecimalOf(n) == CASE n = 0 -> <<"0">> [] n = 1 -> <<"1">> [] n = 12 -> <<"1", "2">>

\* the record build_chunk_record makes from the normalized record's document,
\* page and chunk index and the raw record's text
BuiltFrom(raw, normalized) ==
    build_chunk_record(normalized["tenant_id"], normalized["dataset_id"], normalized["doc_id"],
                       normalized["source_uri"], normalized["filename"], normalized["page"],
                       normalized["chunk_index"], GetDefault(raw, "text", PyStr(<<>>)),
                       normalized["created_at"], normalized["embedding_model"], normalized["acl"])

\* C14: for a raw record without chunk_id and legacy chunkId, or without
\* content_hash, normalize_record yields the value build_chunk_record yields
\* for the same document, page, chunk index and text; the synthesized
\* chunk_id is docId "#p" page "#c" chunkIndex with page 0 when absent; a
\* legacy chunkId becomes chunk_id only when chunk_id is absent.
C14_SameIdentifierSynthesis ==
    pstage = "done" =>
        LET hasId == Truthy(Get(arg, "chunk_id"))
            hasLegacy == Truthy(Get(arg, "chunkId"))
            page == Get(arg, "page")
        IN  /\ (~hasId /\ ~hasLegacy) =>
                  /\ res["chunk_id"] = BuiltFrom(arg, res)["chunk_id"]
                  /\ (res["doc_id"].t = "str" /\ res["chunk_index"].t = "int") =>
                        res["chunk_id"].v = res["doc_id"].v \o <<"#", "p">>
                                            \o (IF page.t = "int" THEN DecimalOf(page.v) ELSE <<"0">>)
                                            \o <<"#", "c">> \o DecimalOf(res["chunk_index"].v)
            /\ ~Truthy(Get(arg, "content_hash")) =>
                  res["content_hash"] = BuiltFrom(arg, res)["content_hash"]
            /\ hasId => res["chunk_id"] = arg["chunk_id"]
            /\ (~hasId /\ hasLegacy) => res["chunk_id"] = arg["chunkId"]
            /\ "chunkId" \notin DOMAIN res

C14_Witness ==
    /\ pstage = "done"
    /\ "chunk_id" \notin DOMAIN arg /\ "chunkId" \notin DOMAIN arg /\ "content_hash" \notin DOMAIN arg
    /\ Get(arg, "page") = None
    /\ Get(arg, "chunk_index") = PyInt(12)
    /\ Get(arg, "text") = PyStr(<<"a", " ", "\n", "b">>)
    /\ res["chunk_id"] = PyStr(<<"d", "#", "p", "0", "#", "c", "1", "2">>)


\* ---------------------------------------------------------------------------
\* compute_content_hash on two chunks of one document page.
\* ---------------------------------------------------------------------------

MaxText == 3

HashChars == {"2", "|", " ", "\n"}
HashTexts == UNION {[1..n -> HashChars] : n \in 0..MaxText}
HashInputs == [doc_id : {PyStr(<<"d">>)}, page : {None, PyInt(3)},
               index_a : {PyInt(1), PyInt(12)}, index_b : {PyInt(1), PyInt(12)},
               text_a : HashTexts, text_b : HashTexts]

InitHash ==
    /\ ChunkOff /\ IngestOff /\ ConnOff /\ DispOff /\ UpsertOff /\ QualOff
    /\ arg \in HashInputs
    /\ res = <<>>
    /\ pstage = "input"

CallComputeContentHash ==
    /\ pstage = "input"
    /\ res' = [a |-> compute_content_hash(arg.doc_id, arg.page, arg.index_a, PyStr(arg.text_a)),
               b |-> compute_content_hash(arg.doc_id, arg.page, arg.index_b, PyStr(arg.text_b)),
               again |-> compute_content_hash(arg.doc_id, arg.page, arg.index_a, PyStr(arg.text_a))]
    /\ pstage' = "done"
    /\ UNCHANGED arg
    /\ UNCHANGED notPure

NextHash == CallComputeContentHash

SpecHash == InitHash /\ [][NextHash]_vars

\* the positions of a text that survive collapsing: every non-whitespace
\* character, and the first whitespace character of a run that has
\* non-whitespace on both sides
Survives(text, i) ==
    \/ ~IsSpace(text[i])
    \/ /\ i > 1 /\ ~IsSpace(text[i - 1])
       /\ \E j \in (i + 1)..Len(text) : ~IsSpace(text[j])

RECURSIVE Collapsed(_, _)
Collapsed(text, i) ==
    IF i > Len(text) THEN <<>>
    ELSE (IF Survives(text, i) THEN <<IF IsSpace(text[i]) THEN " " ELSE text[i]>> ELSE <<>>)
         \o Collapsed(text, i + 1)

NotSpace(c) == ~IsSpace(c)

\* C15: compute_content_hash gives one hash to two texts that are equal after
\* collapsing whitespace runs to one space and removing leading and trailing
\* whitespace, when document, page and chunk index are equal; it gives
\* different hashes when the chunk index differs or a non-whitespace
\* character of the text differs; the same input always gives the same hash.
C15_HashIgnoresWhitespaceOnly ==
    pstage = "done" =>
        /\ res.again = res.a
        /\ (arg.index_a = arg.index_b /\ Collapsed(arg.text_a, 1) = Collapsed(arg.text_b, 1))
              => res.a = res.b
        /\ arg.index_a # arg.index_b => res.a # res.b
        /\ SelectSeq(arg.text_a, NotSpace) # SelectSeq(arg.text_b, NotSpace) => res.a # res.b

C15_Witness ==
    /\ pstage = "done"
    /\ arg.index_a = arg.index_b
    /\ arg.text_a = <<"2", " ", "|">>
    /\ arg.text_b = <<"2", "\n", "|">>
    /\ res.a = res.b


\* ---------------------------------------------------------------------------
\* quality_checks.py compute_readiness and persist_results.py
\* adjust_readiness. A finding is given by its severity key: one of the three
\* severities, or "absent" when the finding has no such key.
\* ---------------------------------------------------------------------------

MaxFindings == 4
MaxExtra == 2

Severities == {"CRITICAL", "WARN", "INFO"}
Findings(n) == UNION {[1..k -> Severities \cup {"absent"}] : k \in 0..n}

\* finding.get("severity", default)
SeverityOf(finding, default) == IF finding = "absent" THEN default ELSE finding

\* as SEVERITY_DEDUCTIONS, WARN taken at the weight of persist_results.py
SEVERITY_DEDUCTIONS_LIGHT(severity) ==
    CASE severity = "CRITICAL" -> 40 [] severity = "WARN" -> 3 [] severity = "INFO" -> 5 [] OTHER -> 0

\* quality_checks.py lines 123-127 and the .get(..., 0) of line 142
SEVERITY_DEDUCTIONS(severity) ==
    CASE severity = "CRITICAL" -> 40 [] severity = "WARN" -> 15 [] severity = "INFO" -> 5 [] OTHER -> 0

\* quality_checks.py lines 139-143
RECURSIVE ScoreAfter(_, _)
ScoreAfter(findings, score) ==
    IF findings = <<>> THEN score
    ELSE ScoreAfter(Tail(findings), score - SEVERITY_DEDUCTIONS(SeverityOf(Head(findings), "INFO")))

compute_readiness(findings) == Max(0, Min(100, ScoreAfter(findings, 100)))

\* as ExtraDeduction, the table of compute_readiness applied
ExtraDeductionByTable(finding) == SEVERITY_DEDUCTIONS(SeverityOf(finding, "INFO"))

\* persist_results.py lines 23-24
ExtraDeduction(finding) == IF SeverityOf(finding, "none") = "WARN" THEN 3 ELSE 0

\* persist_results.py lines 20-25
RECURSIVE AdjustedAfter(_, _)
AdjustedAfter(extra_findings, score) ==
    IF extra_findings = <<>> THEN score
    ELSE AdjustedAfter(Tail(extra_findings), score - ExtraDeduction(Head(extra_findings)))

adjust_readiness(base_score, extra_findings) == Max(0, Min(100, AdjustedAfter(extra_findings, base_score)))

InitReadiness ==
    /\ ChunkOff /\ IngestOff /\ ConnOff /\ DispOff /\ UpsertOff /\ QualOff
    /\ arg \in [findings : Findings(MaxFindings), chunkWarnings : Findings(MaxExtra)]
    /\ res = <<>>
    /\ pstage = "input"

\* quality_checks.py line 332; the score of the list without its last
\* finding is kept beside it
CallComputeReadiness ==
    /\ pstage = "input"
    /\ res' = [readinessScore |-> compute_readiness(arg.findings),
               shorter |-> IF arg.findings = <<>> THEN 100
                           ELSE compute_readiness(SubSeq(arg.findings, 1, Len(arg.findings) - 1))]
    /\ pstage' = "scored"
    /\ UNCHANGED arg
    /\ UNCHANGED notPure

\* persist_results.py line 45
CallAdjustReadiness ==
    /\ pstage = "scored"
    /\ res' = [readinessScore |-> res.readinessScore, shorter |-> res.shorter,
               persisted |-> adjust_readiness(res.readinessScore, arg.chunkWarnings)]
    /\ pstage' = "done"
    /\ UNCHANGED arg
    /\ UNCHANGED notPure

NextReadiness == CallComputeReadiness \/ CallAdjustReadiness

SpecReadiness == InitReadiness /\ [][NextReadiness]_vars

CountOf(findings, severity) == Cardinality({i \in DOMAIN findings : findings[i] = severity})

Clamped(x) == IF x < 0 THEN 0 ELSE IF x > 100 THEN 100 ELSE x

\* C16: compute_readiness is 100 minus 40 per CRITICAL, 15 per WARN and 5 per
\* INFO finding (a finding without severity counting as INFO), clamped to
\* 0..100; appending a finding never raises it and it lies in 0..100.
C16_ReadinessByTable ==
    pstage \in {"scored", "done"} =>
        /\ res.readinessScore = Clamped(100 - 40 * CountOf(arg.findings, "CRITICAL")
                                            - 15 * CountOf(arg.findings, "WARN")
                                            - 5 * (CountOf(arg.findings, "INFO")
                                                   + CountOf(arg.findings, "absent")))
        /\ res.readinessScore <= res.shorter
        /\ res.readinessScore \in 0..100

C16_Witness ==
    /\ pstage = "scored"
    /\ CountOf(arg.findings, "CRITICAL") = 1
    /\ CountOf(arg.findings, "WARN") = 2
    /\ CountOf(arg.findings, "INFO") = 1
    /\ res.readinessScore = 25
    /\ res.shorter > 25

\* C17: adjust_readiness is the base score minus 3 per WARN finding of the
\* second batch, clamped to 0..100; CRITICAL and INFO findings of that batch
\* change nothing, so the persisted score is the clamped compute_readiness
\* score minus 3 per WARN chunk warning.
C17_PersistedReadiness ==
    pstage = "done" =>
        /\ res.persisted = Clamped(res.readinessScore - 3 * CountOf(arg.chunkWarnings, "WARN"))
        /\ CountOf(arg.chunkWarnings, "WARN") = 0 => res.persisted = res.readinessScore
        /\ res.persisted = Clamped(Clamped(100 - 40 * CountOf(arg.findings, "CRITICAL")
                                               - 15 * CountOf(arg.findings, "WARN")
                                               - 5 * (CountOf(arg.findings, "INFO")
                                                      + CountOf(arg.findings, "absent")))
                                   - 3 * CountOf(arg.chunkWarnings, "WARN"))

C17_Witness ==
    /\ pstage = "done"
    /\ arg.chunkWarnings = <<"WARN", "CRITICAL">>
    /\ res.readinessScore = 45
    /\ res.persisted = 42


\* ---------------------------------------------------------------------------
\* extract_text.py and quality_checks.py on the files table: the raw-content
\* hash recorded at extraction, the exact and near duplicate checks and the
\* fingerprint stored at the end of the quality check. The rows of the table
\* exist from upload; a larger file number is a more recent file. The other
\* checks of the quality handler (lines 194-321) add findings of other types
\* and read nothing from the table.
\* ---------------------------------------------------------------------------

MaxFiles == 3

FileIds == 1..MaxFiles
Tenants == {"t1", "t2"}
\* raw contents; "scan" has no extractable text
Contents == {"d1", "d2", "scan"}
\* fingerprints of cleaned texts: 0 and 7 are 3 bits apart, 0 and 8 one, 7 and 8 four
Prints == {0, 7, 8}

\* bin(n).count("1")
RECURSIVE PopCount(_)
PopCount(n) == IF n = 0 THEN 0 ELSE (n % 2) + PopCount(n \div 2)

\* a ^ b
RECURSIVE Xor(_, _)
Xor(a, b) == IF a = 0 /\ b = 0 THEN 0
             ELSE (((a % 2) + (b % 2)) % 2) + 2 * Xor(a \div 2, b \div 2)

\* simhash.py lines 32-33
hamming_distance(a, b) == PopCount(Xor(a, b))

DigitValue(c) == CHOOSE d \in 0..9 : DigitChar(d) = c

\* int(s) for a decimal string
RECURSIVE ParseInt(_, _)
ParseInt(s, acc) == IF s = <<>> THEN acc ELSE ParseInt(Tail(s), 10 * acc + DigitValue(Head(s)))

\* the items of the files table, most recent first
RECURSIVE TableItems(_, _)
TableItems(rows, n) ==
    IF n = 0 THEN <<>>
    ELSE <<[fileId |-> n, tenantId |-> rows[n].tenantId, rawSha256 |-> rows[n].rawSha256,
            simhash |-> rows[n].simhash]>> \o TableItems(rows, n - 1)

\* ddb.py lines 63-71, over the items of the table
query_duplicates_by_hash(items, tenant_id, raw_sha256) ==
    IF ~Truthy(raw_sha256) THEN <<>>
    ELSE LET Match(item) == item.tenantId = tenant_id /\ item.rawSha256 = raw_sha256
         IN  SelectSeq(items, Match)

\* ddb.py lines 74-82: newest first, at most limit items
query_recent_files(items, tenant_id, limit) ==
    LET OfTenant(item) == item.tenantId = tenant_id
        all == SelectSeq(items, OfTenant)
    IN  SubSeq(all, 1, Min(limit, Len(all)))

\* as OtherFiles, the file's own row kept
OtherFilesAndOwn(duplicates, file_id) == duplicates

\* quality_checks.py line 161
OtherFiles(duplicates, file_id) ==
    LET NotOwn(item) == item.fileId # file_id IN SelectSeq(duplicates, NotOwn)

FileIdsOf(items) == [i \in DOMAIN items |-> items[i].fileId]

\* quality_checks.py lines 160-169
ExactDuplicateFindings(items, tenant_id, file_id, raw_sha256) ==
    LET duplicates == OtherFiles(query_duplicates_by_hash(items, tenant_id, raw_sha256), file_id)
    IN  IF duplicates # <<>>
        THEN <<[type |-> "EXACT_DUPLICATE", severity |-> "CRITICAL",
                evidence |-> FileIdsOf(duplicates)]>>
        ELSE <<>>

\* as NearEnough, distance 3 left out
NearEnoughBelow(distance) == distance < 3

\* quality_checks.py line 182
NearEnough(distance) == distance <= 3

\* quality_checks.py lines 174-183: the rows passed over by the two continue
\* statements and by the distance test are left out, the others are listed
\* in the order of the query's result
NearDupes(recent_files, file_id, simhash_value) ==
    LET Distance(item) == hamming_distance(simhash_value, ParseInt(item.simhash.v, 0))
        Listed(item) == /\ item.fileId # file_id
                        /\ item.simhash # None
                        /\ NearEnough(Distance(item))
        listed == SelectSeq(recent_files, Listed)
    IN  [k \in DOMAIN listed |-> [fileId |-> listed[k].fileId, distance |-> Distance(listed[k])]]

\* quality_checks.py lines 172-192
NearDuplicateFindings(items, tenant_id, file_id, simhash_value) ==
    LET near_dupes == NearDupes(query_recent_files(items, tenant_id, 50), file_id, simhash_value)
    IN  IF near_dupes # <<>>
        THEN <<[type |-> "NEAR_DUPLICATE", severity |-> "WARN",
                evidence |-> SubSeq(near_dupes, 1, Min(5, Len(near_dupes)))]>>
        ELSE <<>>

\* hashlib.sha256(data).hexdigest(), extract_text.py line 51
RawSha256(data) == PyStr(<<"sha256", data>>)

InitQuality ==
    /\ ChunkOff /\ IngestOff /\ ConnOff /\ DispOff /\ UpsertOff /\ PureOff
    /\ files \in [FileIds -> [tenantId : Tenants, data : Contents, print : Prints,
                              rawSha256 : {None}, simhash : {None}]]
    /\ files[1].tenantId = "t1"
    /\ qrun = [f \in FileIds |-> [pc |-> "uploaded", rawSha256 |-> None, findings |-> <<>>]]

\* extract_text.py lines 42-106: raises when there is no text, otherwise
\* records the hash on the file's row and passes it on in the event
Extract(f) ==
    /\ qrun[f].pc = "uploaded"
    /\ IF files[f].data = "scan"
       THEN /\ qrun' = [qrun EXCEPT ![f].pc = "failed"]
            /\ UNCHANGED files
       ELSE /\ files' = [files EXCEPT ![f].rawSha256 = RawSha256(files[f].data)]
            /\ qrun' = [qrun EXCEPT ![f].pc = "extracted", ![f].rawSha256 = RawSha256(files[f].data)]
    /\ UNCHANGED notQual

\* quality_checks.py lines 159-169
ExactDuplicateCheck(f) ==
    /\ qrun[f].pc = "extracted"
    /\ qrun' = [qrun EXCEPT ![f].pc = "exact",
                            ![f].findings = @ \o ExactDuplicateFindings(TableItems(files, MaxFiles),
                                                     files[f].tenantId, f, qrun[f].rawSha256)]
    /\ UNCHANGED files
    /\ UNCHANGED notQual

\* quality_checks.py lines 171-192
NearDuplicateCheck(f) ==
    /\ qrun[f].pc = "exact"
    /\ qrun' = [qrun EXCEPT ![f].pc = "near",
                            ![f].findings = @ \o NearDuplicateFindings(TableItems(files, MaxFiles),
                                                     files[f].tenantId, f, files[f].print)]
    /\ UNCHANGED files
    /\ UNCHANGED notQual

\* quality_checks.py lines 323-347
UpdateFileRecord(f) ==
    /\ qrun[f].pc = "near"
    /\ files' = [files EXCEPT ![f].simhash = PyStr(Decimal(files[f].print))]
    /\ qrun' = [qrun EXCEPT ![f].pc = "done"]
    /\ UNCHANGED notQual

NextQuality ==
    \E f \in FileIds :
        \/ Extract(f)
        \/ ExactDuplicateCheck(f)
        \/ NearDuplicateCheck(f)
        \/ UpdateFileRecord(f)

SpecQuality == InitQuality /\ [][NextQuality]_vars

FindingsOfType(findings, type) == {i \in DOMAIN findings : findings[i].type = type}

Checked(f) == qrun[f].pc \in {"exact", "near", "done"}

\* C18: the quality check of file F adds exactly one CRITICAL EXACT_DUPLICATE
\* finding when another file of the same tenant has already recorded the
\* same raw-content hash, and none otherwise; its matchingFileIds are exactly
\* those files, never F and never a file of another tenant. Of two
\* same-content files of one tenant, the one checked second gets the finding
\* naming the other.
C18_ExactDuplicateFinding ==
    [][\A f \in FileIds :
          (qrun[f].pc = "extracted" /\ qrun'[f].pc = "exact") =>
              LET others == {g \in FileIds \ {f} : /\ files[g].tenantId = files[f].tenantId
                                                    /\ files[g].rawSha256 = RawSha256(files[f].data)}
                  found == FindingsOfType(qrun'[f].findings, "EXACT_DUPLICATE")
              IN  /\ others = {} => found = {}
                  /\ others # {} =>
                        /\ Cardinality(found) = 1
                        /\ \A i \in found : /\ qrun'[f].findings[i].severity = "CRITICAL"
                                            /\ Range(qrun'[f].findings[i].evidence) = others
                  /\ \A g \in FileIds \ {f} :
                        (Checked(g) /\ files[g].tenantId = files[f].tenantId
                                    /\ files[g].data = files[f].data)
                            => \E i \in found : g \in Range(qrun'[f].findings[i].evidence)]_vars

C18_Witness ==
    /\ files[1].tenantId = files[2].tenantId /\ files[1].data = files[2].data
    /\ files[3].tenantId # files[2].tenantId /\ files[3].data = files[2].data
    /\ qrun[3].pc = "done"
    /\ qrun[1].pc = "exact" /\ qrun[1].findings = <<>>
    /\ qrun[2].pc = "exact"
    /\ qrun[2].findings = <<[type |-> "EXACT_DUPLICATE", severity |-> "CRITICAL", evidence |-> <<1>>]>>


\* ---------------------------------------------------------------------------
\* The near duplicate check of quality_checks.py on a long recency index: a
\* few rows of any kind, a run of like rows of the tenant, a few more rows.
\* ---------------------------------------------------------------------------

MaxLead == 2
MaxTail == 1

\* the fingerprint of the checked file's text and the kinds of row: of the
\* tenant at distance 3, 1 or 4 from it, of the tenant without a stored
\* fingerprint, the checked file's own row, and a row of another tenant
OwnPrint == 5
RowKinds == {"near3", "near1", "far4", "none", "own", "foreign"}
KindPrint(kind) == CASE kind = "near3" -> 2 [] kind = "near1" -> 4 [] kind = "far4" -> 10
                     [] OTHER -> OwnPrint
PadSizes == {0, 47, 48, 49}

RowLists(n) == UNION {[1..k -> RowKinds] : k \in 0..n}
PadOf(kind, n) == [i \in 1..n |-> kind]

\* the index rows for a list of kinds, most recent first; the file number
\* falls with the position, the fingerprint is stored as str(value)
RowsOf(kinds) ==
    [i \in 1..Len(kinds) |->
        [fileId |-> Len(kinds) + 1 - i,
         tenantId |-> IF kinds[i] = "foreign" THEN "t2" ELSE "t1",
         simhash |-> IF kinds[i] = "none" THEN None ELSE PyStr(Decimal(KindPrint(kinds[i]))),
         kind |-> kinds[i]]]

OwnRows(kinds) == {i \in DOMAIN kinds : kinds[i] = "own"}

NearDupInputs ==
    {lead \o PadOf(pad, n) \o tail : lead \in RowLists(MaxLead), tail \in RowLists(MaxTail),
                                    pad \in {"near3", "far4"}, n \in PadSizes}

InitNearDup ==
    /\ ChunkOff /\ IngestOff /\ ConnOff /\ DispOff /\ UpsertOff /\ QualOff
    /\ \E kinds \in NearDupInputs :
          /\ Cardinality(OwnRows(kinds)) <= 1
          /\ arg = [items |-> RowsOf(kinds),
                    file_id |-> IF OwnRows(kinds) = {} THEN 0
                                ELSE Len(kinds) + 1 - (CHOOSE i \in OwnRows(kinds) : TRUE)]
    /\ res = <<>>
    /\ pstage = "input"

\* quality_checks.py lines 171-192 for the file arg.file_id of tenant t1
CallNearDuplicateCheck ==
    /\ pstage = "input"
    /\ res' = NearDuplicateFindings(arg.items, "t1", arg.file_id, OwnPrint)
    /\ pstage' = "done"
    /\ UNCHANGED arg
    /\ UNCHANGED notPure

NextNearDup == CallNearDuplicateCheck

SpecNearDup == InitNearDup /\ [][NextNearDup]_vars

\* the positions of the tenant's 50 most recent rows
Window(items) ==
    {i \in DOMAIN items :
        /\ items[i].tenantId = "t1"
        /\ Cardinality({j \in 1..i : items[j].tenantId = "t1"}) <= 50}

KindDistance(kind) == CASE kind = "near3" -> 3 [] kind = "near1" -> 1 [] kind = "far4" -> 4

\* the rows of the window, other than the checked file's, that store a
\* fingerprint within distance 3
NearRows(items, file_id) ==
    {i \in Window(items) : /\ items[i].fileId # file_id
                           /\ items[i].kind \in {"near3", "near1", "far4"}
                           /\ KindDistance(items[i].kind) <= 3}

\* C19: the quality check of F adds exactly one WARN NEAR_DUPLICATE finding
\* if and only if one of the tenant's 50 most recent files, F apart, stores a
\* fingerprint within Hamming distance 3 of F's; the finding lists at most 5
\* matches, each with its distance, never F and never a file outside the
\* window.
C19_NearDuplicateFinding ==
    pstage = "done" =>
        LET near == NearRows(arg.items, arg.file_id)
        IN  /\ near = {} => res = <<>>
            /\ near # {} =>
                  /\ Len(res) = 1
                  /\ res[1].type = "NEAR_DUPLICATE" /\ res[1].severity = "WARN"
                  /\ Len(res[1].evidence) = Min(5, Cardinality(near))
                  /\ \A k \in DOMAIN res[1].evidence :
                        LET match == res[1].evidence[k]
                        IN  /\ match.fileId # arg.file_id
                            /\ match.distance <= 3
                            /\ \E i \in near : /\ arg.items[i].fileId = match.fileId
                                               /\ KindDistance(arg.items[i].kind) = match.distance
                  /\ \A k, l \in DOMAIN res[1].evidence :
                        k # l => res[1].evidence[k].fileId # res[1].evidence[l].fileId

C19_Witness ==
    /\ pstage = "done"
    /\ arg.file_id # 0
    /\ Len(res) = 1 /\ Len(res[1].evidence) = 5
    /\ \E i \in DOMAIN arg.items : /\ i \notin Window(arg.items)
                                  /\ arg.items[i].kind = "near1"
    /\ \E i \in Window(arg.items) : arg.items[i].kind = "far4"


\* ---------------------------------------------------------------------------
\* common/simhash.py. hashbits is the function's parameter; the md5 digest of
\* a token is a number fixed for the token, of which simhash reads the low
\* hashbits bits.
\* ---------------------------------------------------------------------------

MaxSimText == 3
MaxBits == 2

SimChars == {"a", "B", "-"}
SimTexts == UNION {[1..n -> SimChars] : n \in 0..MaxSimText}

\* str.lower() on one character
LowerChar(c) == CASE c = "A" -> "a" [] c = "B" -> "b" [] c = "C" -> "c" [] OTHER -> c

\* [a-z0-9]
IsLowerAlnum(c) == c \in {"a", "b", "c"} \cup Digits

\* simhash.py lines 6-7: the maximal runs of [a-z0-9] in text.lower()
RECURSIVE TokensFrom(_, _)
TokensFrom(s, token) ==
    IF s = <<>> THEN (IF token = <<>> THEN <<>> ELSE <<token>>)
    ELSE IF IsLowerAlnum(LowerChar(Head(s)))
         THEN TokensFrom(Tail(s), Append(token, LowerChar(Head(s))))
         ELSE (IF token = <<>> THEN <<>> ELSE <<token>>) \o TokensFrom(Tail(s), <<>>)

tokenize(text) == TokensFrom(text, <<>>)

\* token_hash & (1 << i)
Bit(n, i) == (n \div (2 ^ i)) % 2 = 1

\* simhash.py lines 16-23: the counters after all tokens
RECURSIVE CountersAfter(_, _, _)
CountersAfter(tokens, md5, v) ==
    IF tokens = <<>> THEN v
    ELSE CountersAfter(Tail(tokens), md5,
                       [i \in DOMAIN v |-> IF Bit(md5[Head(tokens)], i) THEN v[i] + 1 ELSE v[i] - 1])

\* as BitSet, a tie leaving the bit clear
BitSetStrict(counter) == counter > 0

\* simhash.py line 27
BitSet(counter) == counter >= 0

\* simhash.py lines 25-28
RECURSIVE Fingerprint(_, _, _)
Fingerprint(v, i, hashbits) ==
    IF i = hashbits THEN 0
    ELSE (IF BitSet(v[i]) THEN 2 ^ i ELSE 0) + Fingerprint(v, i + 1, hashbits)

\* simhash.py lines 10-29
simhash(text, hashbits, md5) ==
    LET tokens == tokenize(text)
    IN  IF tokens = <<>> THEN 0
        ELSE Fingerprint(CountersAfter(tokens, md5, [i \in 0..(hashbits - 1) |-> 0]), 0, hashbits)

InitSimhash ==
    /\ ChunkOff /\ IngestOff /\ ConnOff /\ DispOff /\ UpsertOff /\ QualOff
    /\ \E text \in SimTexts :
          \E md5 \in [Range(tokenize(text)) -> 0..(2 ^ MaxBits - 1)] :
             \E other \in 0..(2 ^ MaxBits - 1) :
                arg = [text |-> text, md5 |-> md5, other |-> other]
    /\ res = <<>>
    /\ pstage = "input"

CallSimhash ==
    /\ pstage = "input"
    /\ LET fingerprint == simhash(arg.text, MaxBits, arg.md5)
       IN  res' = [simhash |-> fingerprint,
                   self |-> hamming_distance(fingerprint, simhash(arg.text, MaxBits, arg.md5)),
                   there |-> hamming_distance(fingerprint, arg.other),
                   back |-> hamming_distance(arg.other, fingerprint)]
    /\ pstage' = "done"
    /\ UNCHANGED arg
    /\ UNCHANGED notPure

NextSimhash == CallSimhash

SpecSimhash == InitSimhash /\ [][NextSimhash]_vars

IsTokenChar(c) == c \in {"a", "b", "A", "B"}

\* the positions where a token of the text begins, and the token there
TokenStarts(text) ==
    {p \in DOMAIN text : IsTokenChar(text[p]) /\ (p = 1 \/ ~IsTokenChar(text[p - 1]))}
TokenEnd(text, p) ==
    CHOOSE q \in p..Len(text) :
        /\ \A k \in p..q : IsTokenChar(text[k])
        /\ (q = Len(text) \/ ~IsTokenChar(text[q + 1]))
TokenAt(text, p) ==
    [k \in 1..(TokenEnd(text, p) - p + 1) |->
        IF text[p + k - 1] = "A" THEN "a" ELSE IF text[p + k - 1] = "B" THEN "b" ELSE text[p + k - 1]]

\* the token occurrences whose hash has bit i set, and those with it clear
WithBit(text, md5, i) == {p \in TokenStarts(text) : (md5[TokenAt(text, p)] \div (2 ^ i)) % 2 = 1}
WithoutBit(text, md5, i) == TokenStarts(text) \ WithBit(text, md5, i)

\* C20: simhash is determined by the multiset of lowercase alphanumeric
\* tokens: 0 without a token, otherwise bit i is 1 exactly when at least as
\* many token occurrences have bit i set in their hash as have it clear; the
\* distance of a fingerprint to itself is 0, and hamming_distance is
\* symmetric and at most the fingerprint width.
C20_SimhashByTokenCounts ==
    pstage = "done" =>
        /\ TokenStarts(arg.text) = {} => res.simhash = 0
        /\ TokenStarts(arg.text) # {} =>
              \A i \in 0..(MaxBits - 1) :
                 ((res.simhash \div (2 ^ i)) % 2 = 1)
                    <=> (Cardinality(WithBit(arg.text, arg.md5, i))
                            >= Cardinality(WithoutBit(arg.text, arg.md5, i)))
        /\ res.simhash \in 0..(2 ^ MaxBits - 1)
        /\ res.self = 0
        /\ res.there = res.back
        /\ res.there \in 0..MaxBits

C20_Witness ==
    /\ pstage = "done"
    /\ Cardinality(Range(tokenize(arg.text))) = 2
    /\ \E i \in 0..(MaxBits - 1) :
          /\ Cardinality(WithBit(arg.text, arg.md5, i)) = Cardinality(WithoutBit(arg.text, arg.md5, i))
          /\ (res.simhash \div (2 ^ i)) % 2 = 1
    /\ res.there = MaxBits


NearFindingNames(f, g) ==
    \E i \in FindingsOfType(qrun[f].findings, "NEAR_DUPLICATE") :
        \E k \in DOMAIN qrun[f].findings[i].evidence : qrun[f].findings[i].evidence[k].fileId = g

\* C30: when two files of one tenant have fingerprints within Hamming distance
\* 3 and both quality checks have run, in whatever interleaving of their
\* steps, at least one of the two has a NEAR_DUPLICATE finding naming the
\* other.
C30_OneOfTwoNearFilesWarned ==
    \A f, g \in FileIds :
        (/\ f # g
         /\ files[f].tenantId = files[g].tenantId
         /\ hamming_distance(files[f].print, files[g].print) <= 3
         /\ qrun[f].pc = "done" /\ qrun[g].pc = "done")
            => (NearFindingNames(f, g) \/ NearFindingNames(g, f))

C30_Witness ==
    /\ files[1].tenantId = files[2].tenantId
    /\ hamming_distance(files[1].print, files[2].print) = 3
    /\ qrun[1].pc = "done" /\ qrun[2].pc = "done"
    /\ NearFindingNames(2, 1) /\ ~NearFindingNames(1, 2)


\* C22: a failure of the metrics call never changes the outcome of the
\* handler: an invocation that reached the end of its writes returns the event
\* with vectorIngested, and an invocation that failed raises its original
\* error again, whether or not put_metric_data fails.
C22_MetricsFailureIgnored ==
    [][\A r \in Runs :
          /\ (run[r].pc = "return" /\ run'[r] # run[r]) =>
                /\ run'[r].pc = "done"
                /\ run'[r].result = run[r].processed
                /\ run'[r].error = run[r].error
          /\ (run[r].pc = "except" /\ run'[r] # run[r]) =>
                /\ run'[r].pc = "failed"
                /\ run'[r].error = run[r].error]_vars

C22_Witness ==
    \E r \in Runs :
        /\ run[r].pc = "done" /\ run[r].metric = "failed"
        /\ run[r].result = 2 /\ run[r].error = ""


\* C21: when segmentation of a document yields no chunk at all, the chunk
\* stage does not report success: it returns, and sets the dataset CHUNKED,
\* only with a chunk set that is not empty.
C21_EmptySegmentationIsFatal ==
    (cstage = "returned" \/ dataset_status = "CHUNKED") => chunks # <<>>

C21_Witness ==
    /\ cstage = "returned" /\ dataset_status = "CHUNKED"
    /\ Len(pages) = 2 /\ chunks = <<>>


PageOrigin(page_number, segment_text) == [i \in 1..Len(segment_text) |-> page_number]

\* the page each character of each returned chunk was taken from (0 for a
\* joining space), followed along the accumulation loop of chunk_pages
RECURSIVE Origins(_, _, _, _, _, _, _)
Origins(segs, out, current_text, origin, minLen, maxLen, ovl) ==
    IF segs = <<>>
    THEN IF current_text # <<>> THEN Append(out, origin) ELSE out
    ELSE LET page_number == Head(segs)[1]
             segment_text == Head(segs)[2]
             own == PageOrigin(page_number, segment_text)
         IN  IF current_text = <<>>
             THEN Origins(Tail(segs), out, segment_text, own, minLen, maxLen, ovl)
             ELSE IF EmitsBefore(current_text, segment_text, minLen, maxLen)
             THEN LET overlap_text == OverlapText(current_text, segment_text, maxLen, ovl)
                      next_text == IF overlap_text # <<>>
                                   THEN Strip(overlap_text \o <<" ">> \o segment_text)
                                   ELSE segment_text
                      carried == Len(next_text) - Len(segment_text) - 1
                  IN  Origins(Tail(segs), Append(out, origin), next_text,
                              IF carried > 0 THEN LastN(origin, carried) \o <<0>> \o own ELSE own,
                              minLen, maxLen, ovl)
             ELSE Origins(Tail(segs), out, Strip(current_text \o <<" ">> \o segment_text),
                          origin \o <<0>> \o own, minLen, maxLen, ovl)

ChunkOrigins ==
    Origins(PageSegments(pages, max_len, TRUE).segments, <<>>, <<>>, <<>>, min_len, max_len, overlap)

PagesOf(origin) == Range(origin) \ {0}

\* C23: every chunk chunk_pages returns has pageRange = (lowest, highest) of
\* exactly the pages some of its text was taken from, its segments and the
\* carried overlap text; the two are page numbers of input pages, lowest
\* first.
C23_PageRangeOfContributors ==
    cstage \in {"done", "returned"} =>
        /\ Len(ChunkOrigins) = Len(chunks)
        /\ \A i \in DOMAIN chunks :
              /\ Len(ChunkOrigins[i]) = chunks[i].length
              /\ chunks[i].pageRange = <<SetMin(PagesOf(ChunkOrigins[i])),
                                         SetMax(PagesOf(ChunkOrigins[i]))>>
              /\ chunks[i].pageRange[1] <= chunks[i].pageRange[2]
              /\ \A k \in 1..2 : \E j \in DOMAIN pages : pages[j].pageNumber = chunks[i].pageRange[k]

\* the second chunk carries overlap text of page 1 in front of text of page 2
C23_Witness ==
    /\ cstage = "done" /\ Len(chunks) = 2
    /\ chunks[2].pageRange = <<1, 2>>
    /\ PagesOf(ChunkOrigins[2]) = {1, 2}


HasText(record) == \E i \in DOMAIN record.text : ~IsSpace(record.text[i])

\* the records of the chunks file with non-blank text, in input order
WithText(records) == SelectSeq(records, HasText)

\* C24: for n records with non-blank text and batch size b, an invocation
\* embeds the batches one after another in input order: batch k holds the
\* records (k-1)b+1 .. min(kb, n), so every batch but the last has exactly b
\* records, the last has 1..b and none is empty; an invocation that got
\* through has issued exactly ceil(n/b) batches.
C24_BatchesOfBatchSize ==
    \A r \in Runs :
        LET n == Len(WithText(run[r].records))
            b == env.batch_size
            k == run[r].nbatches
        IN  /\ run[r].pc = "embed" =>
                  /\ run[r].batch # <<>>
                  /\ Len(run[r].batch) = Min(b, n - k * b)
                  /\ \A i \in DOMAIN run[r].batch :
                        run[r].batch[i].text = WithText(run[r].records)[k * b + i].text
                  /\ run[r].processed = k * b
            /\ run[r].pc \in {"update_ready", "audit_ready", "return", "done"} =>
                  /\ k = (n + b - 1) \div b
                  /\ run[r].processed = n

\* three records with text and batch size 2: a batch of 2, then a batch of 1
C24_Witness ==
    \E r \in Runs :
        /\ env.batch_size = 2
        /\ Len(WithText(run[r].records)) = 3
        /\ run[r].pc = "embed" /\ run[r].nbatches = 1 /\ Len(run[r].batch) = 1


(***************************************************************************)
(* The vector-ingest handler when two responses of one invocation may be   *)
(* anomalous: the mapping read of ensure_index and one embedding response. *)
(***************************************************************************)
InitIngestDegraded ==
    ChunkOff /\ ConnOff /\ DispOff /\ UpsertOff /\ PureOff /\ QualOff /\ InitIngestIn({1}, MaxFaults - 2)
SpecIngestDegraded == InitIngestDegraded /\ [][NextIngest]_vars

\* the documents a run of the handler wrote, as opposed to those found there
WrittenByRun == {d \in index.docs : d.id.run # 0}

\* C28: every vector a vector-ingest run writes to the index has the length
\* of the configured target dimension, at every position of every batch and
\* for every sequence of embedding responses.
C28_WrittenVectorsHaveTargetLength ==
    \A d \in WrittenByRun : d.vector.len = env.embedding_dimension

\* a run wrote the vector of the second position of a batch, of target length
C28_Witness ==
    \E d \in WrittenByRun : d.id.pos = 2 /\ d.vector.len = env.embedding_dimension


\* the segments chunk_pages takes from the pages, in input order
SegmentTexts ==
    LET sg == PageSegments(pages, max_len, TRUE).segments
    IN  [i \in 1..Len(sg) |-> sg[i][2]]

\* " ".join(segs)
RECURSIVE JoinSpace(_)
JoinSpace(segs) ==
    IF segs = <<>> THEN <<>>
    ELSE IF Len(segs) = 1 THEN segs[1]
    ELSE segs[1] \o <<" ">> \o JoinSpace(Tail(segs))

EndsWith(s, suffix) == Len(suffix) <= Len(s) /\ LastN(s, Len(suffix)) = suffix

\* the segments segs are the ends of the texts of chunks k, k + 1, ..., each
\* chunk ending with one or more consecutive segments joined by single spaces
RECURSIVE Covers(_, _)
Covers(segs, k) ==
    IF k > Len(chunks) THEN segs = <<>>
    ELSE \E n \in 1..Len(segs) :
            /\ EndsWith(chunks[k].text, JoinSpace(SubSeq(segs, 1, n)))
            /\ Covers(SubSeq(segs, n + 1, Len(segs)), k + 1)

IsBlankPage(page) == Strip(page.text) = <<>>

NonBlankPages == SelectSeq(pages, LAMBDA page : ~IsBlankPage(page))

\* C26: chunk_pages drops no text: the segments of the non-blank pages occur
\* in input order in the texts of the returned chunks, the last buffer being
\* emitted even when shorter than min_len; blank pages contribute to no
\* chunk, and with no non-blank page the empty list is returned.
C26_NoTextDropped ==
    /\ cstage \in {"done", "returned"} =>
          /\ Covers(SegmentTexts, 1)
          /\ chunks = chunk_pages(NonBlankPages, min_len, max_len, overlap, TRUE).chunks
          /\ \A i \in 1..Len(chunks) : \A e \in {1, 2} :
                ~IsBlankPage(pages[chunks[i].pageRange[e]])
    /\ (cstage # "input" /\ NonBlankPages = <<>>) =>
          cstage \in {"done", "returned"} /\ chunks = <<>>

\* a blank page between two pages with text, and a last chunk below min_len
C26_Witness ==
    /\ cstage = "done" /\ Len(pages) = 3
    /\ ~IsBlankPage(pages[1]) /\ IsBlankPage(pages[2]) /\ ~IsBlankPage(pages[3])
    /\ Len(chunks) >= 2 /\ chunks[Len(chunks)].length < min_len


(***************************************************************************)
(* find_best_split_point and split_long_text called on their own, on       *)
(* texts that can hold a heading line ("A1.1", "1.1 A") after a newline.   *)
(***************************************************************************)
MaxSplitText == 6     \* characters of a text to split
MaxSplitLen == 5      \* largest max_len tried

SplitAlphabet == {"A", "1", ".", " ", "\n"}

SplitTexts == UNION {[1..n -> SplitAlphabet] : n \in 0..MaxSplitText}

InitSplit ==
    /\ ChunkOff /\ IngestOff /\ ConnOff /\ DispOff /\ UpsertOff /\ QualOff
    /\ \E text \in SplitTexts : \E maxLen \in 1..MaxSplitLen : \E respect_sections \in BOOLEAN :
          arg = [text |-> text, max_len |-> maxLen, respect_sections |-> respect_sections]
    /\ res = <<>>
    /\ pstage = "input"

CallFindBestSplitPoint ==
    /\ pstage = "input"
    /\ res' = find_best_split_point(arg.text, arg.max_len)
    /\ pstage' = "point"
    /\ UNCHANGED arg
    /\ UNCHANGED notPure

\* a call whose while loop repeats an iteration without moving start never
\* returns: pstage "spinning"
CallSplitLongText ==
    /\ pstage = "input"
    /\ res' = split_long_text(arg.text, arg.max_len, arg.respect_sections)
    /\ pstage' = IF res'.loops THEN "spinning" ELSE "split"
    /\ UNCHANGED arg
    /\ UNCHANGED notPure

NextSplit == CallFindBestSplitPoint \/ CallSplitLongText

SpecSplit == InitSplit /\ [][NextSplit]_vars

\* 0-based index one past the line that begins at index i of text
LineEnd(text, i) ==
    LET I == {j \in (i + 1)..Len(text) : text[j] = "\n"}
    IN  IF I = {} THEN Len(text) ELSE SetMin(I) - 1

\* 0-based indices, within the first maxLen characters, at which a heading
\* line begins after a newline
HeadingStarts(text, maxLen) ==
    {i \in 1..(Min(maxLen, Len(text)) - 1) :
        /\ text[i] = "\n"
        /\ is_section_boundary(Slice(text, i, LineEnd(text, i)))}

\* C25: for a text longer than max_len, find_best_split_point returns the
\* position just before the first heading line that begins within the first
\* max_len characters; else the index of the last space within the first
\* max_len characters if that index is at or after 60% of max_len; else
\* max_len.  The result is never greater than max_len.
C25_SplitPointPriority ==
    (pstage = "point" /\ Len(arg.text) > arg.max_len) =>
        LET headings == HeadingStarts(arg.text, arg.max_len)
            last_space == RFind(Slice(arg.text, 0, arg.max_len), " ")
        IN  /\ res <= arg.max_len
            /\ res = IF headings # {} THEN SetMin(headings) - 1
                     ELSE IF 10 * last_space >= 6 * arg.max_len THEN last_space
                     ELSE arg.max_len

\* a text longer than max_len for which the position just before its
\* heading line is returned
C25_Witness ==
    /\ pstage = "point" /\ Len(arg.text) > arg.max_len
    /\ HeadingStarts(arg.text, arg.max_len) # {}
    /\ res = SetMin(HeadingStarts(arg.text, arg.max_len)) - 1

\* C27: split_long_text terminates for every text and every max_len >= 1,
\* with respect_sections true or false: every iteration of its loop moves
\* start forward, also when the rest of the text begins with the newline
\* before a heading line and is longer than max_len.
C27_SplitLongTextTerminates ==
    pstage # "input" => pstage \in {"point", "split"}

\* a text longer than max_len, with a heading line, that was split in two
C27_Witness ==
    /\ pstage = "split" /\ arg.respect_sections /\ Len(arg.text) > arg.max_len
    /\ HeadingStarts(arg.text, arg.max_len) # {}
    /\ Len(res.segments) = 2


(***************************************************************************)
(* The dispatcher: dispatcher.py.  One file was uploaded; its upload       *)
(* notification is delivered MaxDeliveries times, each delivery to its own *)
(* invocation of the handler.  Every call of a table or of the workflow    *)
(* service is one step, so invocations interleave between their calls.     *)
(***************************************************************************)
MaxDeliveries == 3    \* deliveries of the file's upload notification

Deliveries == 1..MaxDeliveries

\* the job an earlier run of the pipeline left in the tables
OldJob == MaxDeliveries + 1

\* get_item(...).get("Item") when the table has no item for the key;
\* latestJobId = 0 is an item without that attribute
NoItem == [exists |-> FALSE, status |-> "", latestJobId |-> 0]

InitialItems ==
    {NoItem,
     [exists |-> TRUE, status |-> "UPLOADED", latestJobId |-> 0],
     [exists |-> TRUE, status |-> "PROCESSING", latestJobId |-> 0],
     [exists |-> TRUE, status |-> "PROCESSING", latestJobId |-> OldJob],
     [exists |-> TRUE, status |-> "COMPLETE", latestJobId |-> OldJob]}

InitDispatch ==
    /\ ChunkOff /\ IngestOff /\ ConnOff /\ UpsertOff /\ PureOff /\ QualOff
    /\ file_item \in InitialItems
    /\ jobs = IF file_item.latestJobId = 0 THEN {}
              ELSE {[jobId |-> OldJob,
                     status |-> IF file_item.status = "COMPLETE" THEN "COMPLETE" ELSE "QUEUED"]}
    /\ executions = IF file_item.latestJobId = 0 THEN {} ELSE {OldJob}
    /\ dispatch = [d \in Deliveries |-> [pc |-> "idle", job_id |-> 0]]

\* line 50: the file already has a job that is running or has finished
AlreadyDispatched(item) ==
    item.status \in {"PROCESSING", "COMPLETE"} /\ item.latestJobId # 0

\* lines 37-53: the key is parsed, the file's item is read, and the record is
\* skipped or a new job id is drawn (new_id(): the delivery's own number)
GetFileItem(d) ==
    /\ dispatch[d].pc = "idle"
    /\ \E well_formed \in BOOLEAN :
          dispatch' = [dispatch EXCEPT ![d] =
              IF ~well_formed \/ ~file_item.exists \/ AlreadyDispatched(file_item)
              THEN [pc |-> "skipped", job_id |-> 0]
              ELSE [pc |-> "put_job", job_id |-> d]]
    /\ UNCHANGED <<file_item, jobs, executions>>
    /\ UNCHANGED notDisp

\* lines 56-64
PutJob(d) ==
    /\ dispatch[d].pc = "put_job"
    /\ jobs' = jobs \cup {[jobId |-> dispatch[d].job_id, status |-> "QUEUED"]}
    /\ dispatch' = [dispatch EXCEPT ![d].pc = "update_file"]
    /\ UNCHANGED <<file_item, executions>>
    /\ UNCHANGED notDisp

\* lines 66-76: an unconditional SET of status and latestJobId
UpdateFile(d) ==
    /\ dispatch[d].pc = "update_file"
    /\ file_item' = [exists |-> TRUE, status |-> "PROCESSING",
                     latestJobId |-> dispatch[d].job_id]
    /\ dispatch' = [dispatch EXCEPT ![d].pc = "start_execution"]
    /\ UNCHANGED <<jobs, executions>>
    /\ UNCHANGED notDisp

\* lines 78-88
StartExecution(d) ==
    /\ dispatch[d].pc = "start_execution"
    /\ executions' = executions \cup {dispatch[d].job_id}
    /\ dispatch' = [dispatch EXCEPT ![d].pc = "started"]
    /\ UNCHANGED <<file_item, jobs>>
    /\ UNCHANGED notDisp

\* persist_results.py lines 75-99: the last state of an execution sets its
\* job and the file to COMPLETE
PersistResults(j) ==
    /\ j \in executions
    /\ [jobId |-> j, status |-> "QUEUED"] \in jobs
    /\ jobs' = (jobs \ {[jobId |-> j, status |-> "QUEUED"]})
                  \cup {[jobId |-> j, status |-> "COMPLETE"]}
    /\ file_item' = [exists |-> TRUE, status |-> "COMPLETE", latestJobId |-> j]
    /\ UNCHANGED <<executions, dispatch>>
    /\ UNCHANGED notDisp

NextDispatch ==
    \/ \E d \in Deliveries :
          GetFileItem(d) \/ PutJob(d) \/ UpdateFile(d) \/ StartExecution(d)
    \/ \E j \in 1..OldJob : PersistResults(j)

SpecDispatch == InitDispatch /\ [][NextDispatch]_vars

JobIds == {job.jobId : job \in jobs}

\* C29: for one file record the dispatcher starts at most one pipeline
\* execution while the file is PROCESSING or COMPLETE with a latestJobId: a
\* notification delivered again, or delivered to two invocations running
\* concurrently, creates no second job record and starts no second execution.
C29_OneExecutionPerFile ==
    Cardinality(JobIds) <= 1 /\ Cardinality(executions) <= 1

\* every delivery was handled: one started the file's only execution and the
\* others, which read the file after it was set to PROCESSING, were skipped
C29_Witness ==
    /\ \E d \in Deliveries :
          /\ dispatch[d].pc = "started" /\ executions = {dispatch[d].job_id}
          /\ \A o \in Deliveries \ {d} : dispatch[o].pc = "skipped"
    /\ JobIds = executions

====
